---- MODULE Spec2Model ----
(***************************************************************************)
(* Microbat: wire codec, SQL front end, catalog and the per-connection     *)
(* request loop of the server, with the handshake of the client.           *)
(*                                                                         *)
(* Text is a sequence of bytes (the UTF-8 encoding of a Rust String); a    *)
(* byte is a number in 0..255.  A fallible Rust call is a record           *)
(* [res |-> "Ok", val |-> v], [res |-> "Err", kind |-> k, ...] or          *)
(* [res |-> "Panic"] (an unwrap/expect/index/todo!/panic! that aborts the  *)
(* calling thread).                                                        *)
(***************************************************************************)
EXTENDS Integers, Sequences, FiniteSets, TLC

VARIABLES
    \* codec harness (serialize, then deserialize the produced frame)
    cmsg,      \* the message or raw triple handed to the codec
    wire,      \* bytes produced by as_bytes()
    decoded,   \* what the role's deserializer returned
    \* server and its connections
    db,        \* the catalog behind Arc<RwLock<InMemoryManager>>
    c2s,       \* per connection: bytes written by the client, not yet read by the worker
    closed,    \* per connection: the client has shut its socket down
    s2c,       \* per connection: bytes written by the worker, not yet read by the client
    worker,    \* per connection: state of the thread running handle_connection
    turn,      \* per connection: the latest turn of the worker's loop
    client,    \* per connection: position of MicroBatTcpClient::handshake
    nsent,     \* number of frames the clients have written so far (bounded)
    \* the engine on its own: the catalog (db), the lexers and parse_sql called directly
    op,        \* the latest call: its number, its arguments and what it returned
    inserted,  \* per table name: the rows of the inserts that returned Ok, in order
    \* run_microbat and its threads, step by step
    rwlock,    \* the RwLock around the catalog: the catalog, who holds the lock
    main,      \* position of run_microbat: the bootstrap calls made, the threads spawned
    phase      \* per connection: position of its thread in handle_connection

vars == <<cmsg, wire, decoded, db, c2s, closed, s2c, worker, turn, client, nsent,
          op, inserted, rwlock, main, phase>>

codecVars == <<cmsg, wire, decoded>>
serverVars == <<db, c2s, closed, s2c, worker, turn, client, nsent>>
connVars == <<c2s, closed, s2c, worker, turn, client, nsent>>
engineVars == <<op, inserted>>
lockVars == <<rwlock, main, phase>>

(***************************************************************************)
(* Bounds of the model.                                                    *)
(***************************************************************************)
MaxRowLen == 2       \* values in a DATA_ROW / columns in a DATA_DESCRIPTION handed to the codec
MaxChunks == 2       \* column chunks in a raw payload handed to a deserializer
MaxSends == 2        \* client frames written over all connections
MaxWords == 3        \* pieces a text handed to the SqlLexer is put together from
MaxOps == 4          \* calls made on the catalog on its own
MaxLiterals == 3     \* integer literals of an arithmetic expression handed to parse_sql
MaxItems == 2        \* items of the projection and of the FROM list of a parsed SELECT
MaxTokens == 3       \* words of a text handed to parse_sql that need not be a statement

(***************************************************************************)
(* Text is the sequence of its bytes (UTF-8); a character of 7-bit ASCII   *)
(* is its code.                                                            *)
(***************************************************************************)
Byte == 0..255

SubSeqFrom(s, from) == SubSeq(s, from, Len(s))

RECURSIVE Flatten(_)
Flatten(ss) == IF ss = <<>> THEN <<>> ELSE Head(ss) \o Flatten(Tail(ss))

Ok(v) == [res |-> "Ok", val |-> v]
Err(k) == [res |-> "Err", kind |-> k]
Panic == [res |-> "Panic"]

(***************************************************************************)
(* String::from_utf8: the byte sequences that are well-formed UTF-8.       *)
(***************************************************************************)
IsCont(b) == b >= 128 /\ b <= 191

RECURSIVE ValidUtf8(_)
ValidUtf8(bs) ==
    IF bs = <<>> THEN TRUE
    ELSE LET b == bs[1] n == Len(bs) IN
         IF b <= 127 THEN ValidUtf8(Tail(bs))
         ELSE IF b >= 194 /\ b <= 223
              THEN n >= 2 /\ IsCont(bs[2]) /\ ValidUtf8(SubSeqFrom(bs, 3))
         ELSE IF b >= 224 /\ b <= 239
              THEN /\ n >= 3
                   /\ IsCont(bs[2]) /\ IsCont(bs[3])
                   /\ (b = 224 => bs[2] >= 160)
                   /\ (b = 237 => bs[2] <= 159)
                   /\ ValidUtf8(SubSeqFrom(bs, 4))
         ELSE IF b >= 240 /\ b <= 244
              THEN /\ n >= 4
                   /\ IsCont(bs[2]) /\ IsCont(bs[3]) /\ IsCont(bs[4])
                   /\ (b = 240 => bs[2] >= 144)
                   /\ (b = 244 => bs[2] <= 143)
                   /\ ValidUtf8(SubSeqFrom(bs, 5))
         ELSE FALSE

from_utf8(bs) == IF ValidUtf8(bs) THEN Ok(bs) ELSE Err("FromUtf8Error")

(***************************************************************************)
(* Fixed-width integers on the wire.  The numbers of the model are below   *)
(* 2^31: lengths and row counts are small, and \div and % are the floor    *)
(* division and the non-negative remainder, so that the bytes of a         *)
(* negative i32 are those of its two's complement.                         *)
(***************************************************************************)
\* u32::to_le_bytes
u32_to_le_bytes(n) ==
    <<n % 256, (n \div 256) % 256, (n \div 65536) % 256, (n \div 16777216) % 256>>

\* u32::from_le_bytes; 2^31 and more exceeds every buffer of the model and is
\* kept as the largest number below it
u32_from_le_bytes(b) ==
    IF b[4] >= 128 THEN 2147483647
    ELSE b[1] + 256 * b[2] + 65536 * b[3] + 16777216 * b[4]

\* i32::to_be_bytes
i32_to_be_bytes(v) ==
    <<(v \div 16777216) % 256, (v \div 65536) % 256, (v \div 256) % 256, v % 256>>

\* the value bytes read in the order of the length fields (least significant first)
i32_from_le_bytes(b) ==
    16777216 * (IF b[4] >= 128 THEN b[4] - 256 ELSE b[4]) + 65536 * b[3] + 256 * b[2] + b[1]

\* i32::from_be_bytes
i32_from_be_bytes(b) ==
    16777216 * (IF b[1] >= 128 THEN b[1] - 256 ELSE b[1]) + 65536 * b[2] + 256 * b[3] + b[4]

(***************************************************************************)
(* static_values.rs                                                        *)
(***************************************************************************)
CLIENT_MSG_TYPE_HANDSHAKE == 97   \* b'a'
CLIENT_MSG_TYPE_QUERY == 113   \* b'q'
CLIENT_MSG_TYPE_DISCONNECT == 100   \* b'd'
CLIENT_HANDSHAKE_PAYLOAD == (* "hello microbat" *) <<104, 101, 108, 108, 111, 32, 109, 105, 99, 114, 111, 98, 97, 116>>
CLIENT_DISCONNECT_PAYLOAD == (* "bye and so on" *) <<98, 121, 101, 32, 97, 110, 100, 32, 115, 111, 32, 111, 110>>

SERVER_MSG_TYPE_HANDSHAKE == 98   \* b'b'
SERVER_MSG_TYPE_READY_FOR_QUERY == 120   \* b'x'
SERVER_MSG_TYPE_ERROR == 101   \* b'e'
SERVER_MSG_TYPE_ROW_DESCRIPTION == 114   \* b'r'
SERVER_MSG_TYPE_DATA_ROW == 100   \* b'd'
SERVER_MSG_TYPE_INSERT_RESULT == 105   \* b'i'
SERVER_HANDSHAKE_PAYLOAD == (* "hello client" *) <<104, 101, 108, 108, 111, 32, 99, 108, 105, 101, 110, 116>>
SERVER_READY_PAYLOAD == (* "shoot" *) <<115, 104, 111, 111, 116>>

TYPE_BYTE_NULL == 110   \* b'n'
TYPE_BYTE_INTEGER == 105   \* b'i'
TYPE_BYTE_VARCHAR == 118   \* b'v'

(***************************************************************************)
(* Values (MData), their types (MDataType) and columns.                    *)
(***************************************************************************)
MNull == [t |-> "Null"]
MInteger(v) == [t |-> "Integer", i |-> v]
MVarchar(s) == [t |-> "Varchar", s |-> s]

Column(name, data_type) == [name |-> name, data_type |-> data_type]

\* MData::bytes
mdata_bytes(d) ==
    CASE d.t = "Null" -> <<>>
      [] d.t = "Varchar" -> d.s
      [] d.t = "Integer" -> i32_to_be_bytes(d.i)

\* MData::type_byte
type_byte(d) ==
    CASE d.t = "Null" -> TYPE_BYTE_NULL
      [] d.t = "Varchar" -> TYPE_BYTE_VARCHAR
      [] d.t = "Integer" -> TYPE_BYTE_INTEGER

\* MData::matcher
matcher(d) == d.t

\* deserialize_data_column: bytes.try_into().unwrap() aborts unless 4 bytes are given
deserialize_data_column(marker, bytes) ==
    IF marker = TYPE_BYTE_NULL THEN Ok(MNull)
    ELSE IF marker = TYPE_BYTE_INTEGER
         THEN IF Len(bytes) = 4 THEN Ok(MInteger(i32_from_be_bytes(bytes))) ELSE Panic
    ELSE IF marker = TYPE_BYTE_VARCHAR
         THEN IF ValidUtf8(bytes) THEN Ok(MVarchar(bytes)) ELSE Err("FromUtf8Error")
    ELSE Err("UnknownDataColumnMarker")

(***************************************************************************)
(* Messages and their serialization.                                       *)
(***************************************************************************)
\* number of characters of a text: the bytes that do not continue a character
char_count(payload) == Cardinality({i \in 1..Len(payload) : ~IsCont(payload[i])})

\* str_with_length with the length counted in characters (payload.chars().count())
str_with_char_count(payload) == u32_to_le_bytes(char_count(payload)) \o payload

\* MicrobatMessage::str_with_length: [LENGTH, STR_BYTES], the length in bytes
str_with_length(payload) == u32_to_le_bytes(Len(payload)) \o payload

CHandshake == [kind |-> "Handshake"]
CDisconnect == [kind |-> "Disconnect"]
CQuery(sql) == [kind |-> "Query", text |-> sql]

\* MicrobatClientMessage::as_bytes
client_as_bytes(m) ==
    CASE m.kind = "Handshake" ->
            <<CLIENT_MSG_TYPE_HANDSHAKE>> \o str_with_length(CLIENT_HANDSHAKE_PAYLOAD)
      [] m.kind = "Disconnect" ->
            <<CLIENT_MSG_TYPE_DISCONNECT>> \o str_with_length(CLIENT_DISCONNECT_PAYLOAD)
      [] m.kind = "Query" ->
            <<CLIENT_MSG_TYPE_QUERY>> \o str_with_length(m.text)

\* deserialize_client_message
deserialize_client_message(message_type, length, bytes) ==
    IF length # Len(bytes) THEN Err("ByteMismatch")
    ELSE IF message_type = CLIENT_MSG_TYPE_HANDSHAKE THEN Ok(CHandshake)
    ELSE IF message_type = CLIENT_MSG_TYPE_DISCONNECT THEN Ok(CDisconnect)
    ELSE IF message_type = CLIENT_MSG_TYPE_QUERY
         THEN IF ValidUtf8(bytes) THEN Ok(CQuery(bytes)) ELSE Err("FromUtf8Error")
    ELSE Err("UnknownMessageType")

SHandshake == [kind |-> "Handshake"]
SReady == [kind |-> "Ready"]
SError(text) == [kind |-> "Error", text |-> text]
SDataDescription(columns) == [kind |-> "DataDescription", columns |-> columns]
SDataRow(columns) == [kind |-> "DataRow", columns |-> columns]
SInsertResult(n) == [kind |-> "InsertResult", n |-> n]

\* the column chunk of a DATA_ROW: [type tag][length][value bytes]
data_column_bytes(column) ==
    <<type_byte(column)>>
        \o u32_to_le_bytes(Len(mdata_bytes(column)))
        \o mdata_bytes(column)

\* MicrobatServerMessage::as_bytes
server_as_bytes(m) ==
    CASE m.kind = "Handshake" ->
            <<SERVER_MSG_TYPE_HANDSHAKE>> \o str_with_length(SERVER_HANDSHAKE_PAYLOAD)
      [] m.kind = "Ready" ->
            <<SERVER_MSG_TYPE_READY_FOR_QUERY>> \o str_with_length(SERVER_READY_PAYLOAD)
      [] m.kind = "Error" ->
            <<SERVER_MSG_TYPE_ERROR>> \o str_with_length(m.text)
      [] m.kind = "DataDescription" ->
            LET column_bytes ==
                    Flatten([i \in 1..Len(m.columns) |-> str_with_length(m.columns[i].name)])
            IN <<SERVER_MSG_TYPE_ROW_DESCRIPTION>>
                   \o u32_to_le_bytes(Len(column_bytes)) \o column_bytes
      [] m.kind = "DataRow" ->
            LET column_bytes ==
                    Flatten([i \in 1..Len(m.columns) |-> data_column_bytes(m.columns[i])])
            IN <<SERVER_MSG_TYPE_DATA_ROW>>
                   \o u32_to_le_bytes(Len(column_bytes)) \o column_bytes
      [] m.kind = "InsertResult" ->
            <<SERVER_MSG_TYPE_INSERT_RESULT>>
                \o u32_to_le_bytes(4) \o u32_to_le_bytes(m.n)

\* the DATA_DESCRIPTION loop of deserialize_server_message; a slice that runs
\* past the buffer aborts
RECURSIVE read_description_columns(_, _, _)
read_description_columns(bytes, pointer, columns) ==
    IF ~(pointer < Len(bytes)) THEN Ok(SDataDescription(columns))
    ELSE IF pointer + 4 > Len(bytes) THEN Panic
    ELSE LET column_length == u32_from_le_bytes(SubSeq(bytes, pointer + 1, pointer + 4)) IN
         IF column_length > Len(bytes) - pointer - 4 THEN Panic
         ELSE LET name == SubSeq(bytes, pointer + 5, pointer + 4 + column_length) IN
              IF ~ValidUtf8(name) THEN Err("FromUtf8Error")
              ELSE read_description_columns(bytes, pointer + column_length + 4,
                                            Append(columns, Column(name, "Integer")))

\* the DATA_ROW loop of deserialize_server_message
RECURSIVE read_row_columns(_, _, _)
read_row_columns(bytes, pointer, columns) ==
    IF ~(pointer < Len(bytes)) THEN Ok(SDataRow(columns))
    ELSE IF pointer + 5 > Len(bytes) THEN Panic
    ELSE LET column_type == bytes[pointer + 1]
             column_length == u32_from_le_bytes(SubSeq(bytes, pointer + 2, pointer + 5))
         IN IF column_length > Len(bytes) - pointer - 5 THEN Panic
            ELSE LET value == deserialize_data_column(
                                  column_type,
                                  SubSeq(bytes, pointer + 6, pointer + 5 + column_length))
                 IN IF value.res # "Ok" THEN value
                    ELSE read_row_columns(bytes, pointer + column_length + 5,
                                          Append(columns, value.val))

\* deserialize_server_message
deserialize_server_message(message_type, length, bytes) ==
    IF length # Len(bytes) THEN Err("ByteMismatch")
    ELSE IF message_type = SERVER_MSG_TYPE_HANDSHAKE THEN Ok(SHandshake)
    ELSE IF message_type = SERVER_MSG_TYPE_READY_FOR_QUERY THEN Ok(SReady)
    ELSE IF message_type = SERVER_MSG_TYPE_ERROR
         THEN IF ValidUtf8(bytes) THEN Ok(SError(bytes)) ELSE Err("FromUtf8Error")
    ELSE IF message_type = SERVER_MSG_TYPE_ROW_DESCRIPTION
         THEN read_description_columns(bytes, 0, <<>>)
    ELSE IF message_type = SERVER_MSG_TYPE_DATA_ROW
         THEN read_row_columns(bytes, 0, <<>>)
    ELSE IF message_type = SERVER_MSG_TYPE_INSERT_RESULT
         THEN IF Len(bytes) = 4 THEN Ok(SInsertResult(u32_from_le_bytes(bytes))) ELSE Panic
    ELSE Err("UnknownMessageType")

(***************************************************************************)
(* The catalog (InMemoryManager).  keys is the order in which the HashMap  *)
(* of tables iterates: any order, fixed while the map is not changed.  The *)
(* order shows when the map is iterated; seen tells that it has been, and  *)
(* until then keys is the order of creation.                               *)
(***************************************************************************)
RECURSIVE to_string(_)
\* the decimal text of a non-negative number (usize::to_string)
to_string(n) ==
    IF n < 10 THEN <<48 + n>> ELSE to_string(n \div 10) \o <<48 + (n % 10)>>

\* char::to_uppercase for the characters of 7-bit ASCII
to_uppercase_char(c) == IF c >= 97 /\ c <= 122 THEN c - 32 ELSE c
to_uppercase(text) == [i \in 1..Len(text) |-> to_uppercase_char(text[i])]

DataErr(msg) == [res |-> "Err", msg |-> msg]

\* InMemoryManager::new
new_manager == [keys |-> <<>>, tables |-> <<>>, data |-> <<>>, seen |-> FALSE]

has_table(database, name) == \E i \in 1..Len(database.keys) : database.keys[i] = name
table_index(database, name) == CHOOSE i \in 1..Len(database.keys) : database.keys[i] = name

\* a get_tables that leaves out the last of the tables
get_tables_but_last(database) == Ok(SubSeq(database.keys, 1, Len(database.keys) - 1))

\* InMemoryManager::get_tables
get_tables(database) == Ok(database.keys)

\* InMemoryManager::get_table_meta
get_table_meta(database, name) ==
    IF has_table(database, name)
    THEN Ok([name |-> name, schema |-> database.tables[table_index(database, name)]])
    ELSE DataErr((* "No such table: " *) <<78, 111, 32, 115, 117, 99, 104, 32, 116, 97, 98, 108, 101, 58, 32>> \o name)

\* TableSchema::new
TableSchema_new(columns) ==
    IF columns = <<>> THEN DataErr((* "Can't build empty schema" *) <<67, 97, 110, 39, 116, 32, 98, 117, 105, 108, 100, 32, 101, 109, 112, 116, 121, 32, 115, 99, 104, 101, 109, 97>>) ELSE Ok(columns)

\* a create_table that does not look for the name among the tables
create_table_unchecked(database, name, columns) ==
    LET schema == TableSchema_new(columns) IN
    IF schema.res # "Ok" THEN schema
    ELSE Ok([keys |-> Append(database.keys, name),
             tables |-> Append(database.tables, schema.val),
             data |-> Append(database.data, <<>>),
             seen |-> FALSE])

\* a create_table that puts the schema in the place of the one the name has
create_table_replacing(database, name, columns) ==
    LET schema == TableSchema_new(columns) IN
    IF schema.res # "Ok" THEN schema
    ELSE IF has_table(database, name)
         THEN Ok([database EXCEPT !.tables[table_index(database, name)] = schema.val,
                                  !.data[table_index(database, name)] = <<>>])
    ELSE Ok([keys |-> Append(database.keys, name),
             tables |-> Append(database.tables, schema.val),
             data |-> Append(database.data, <<>>),
             seen |-> FALSE])

\* InMemoryManager::create_table
create_table(database, name, columns) ==
    IF has_table(database, name) THEN DataErr((* "Table already exists: " *) <<84, 97, 98, 108, 101, 32, 97, 108, 114, 101, 97, 100, 121, 32, 101, 120, 105, 115, 116, 115, 58, 32>> \o name)
    ELSE LET schema == TableSchema_new(columns) IN
         IF schema.res # "Ok" THEN schema
         ELSE Ok([keys |-> Append(database.keys, name),
                  tables |-> Append(database.tables, schema.val),
                  data |-> Append(database.data, <<>>),
                  seen |-> FALSE])

RECURSIVE check_columns(_, _, _)
\* the loop of insert over the columns of the schema
check_columns(schema, colums, index) ==
    IF index > Len(schema) THEN Ok(colums)
    ELSE IF index > Len(colums) THEN DataErr((* "Column count mismatch" *) <<67, 111, 108, 117, 109, 110, 32, 99, 111, 117, 110, 116, 32, 109, 105, 115, 109, 97, 116, 99, 104>>)
    ELSE IF schema[index].data_type # matcher(colums[index])
         THEN DataErr((* "Can't put this here" *) <<67, 97, 110, 39, 116, 32, 112, 117, 116, 32, 116, 104, 105, 115, 32, 104, 101, 114, 101>>)
    ELSE check_columns(schema, colums, index + 1)

\* an insert that puts the row in front of the stored rows
insert_in_front(database, table_name, colums) ==
    LET table_metadata == get_table_meta(database, table_name) IN
    IF table_metadata.res # "Ok" THEN table_metadata
    ELSE LET checked == check_columns(table_metadata.val.schema, colums, 1) IN
         IF checked.res # "Ok" THEN checked
         ELSE LET i == table_index(database, table_name) IN
              Ok([database EXCEPT !.data[i] = <<colums>> \o @])

\* InMemoryManager::insert
insert(database, table_name, colums) ==
    LET table_metadata == get_table_meta(database, table_name) IN
    IF table_metadata.res # "Ok" THEN table_metadata
    ELSE LET checked == check_columns(table_metadata.val.schema, colums, 1) IN
         IF checked.res # "Ok" THEN checked
         ELSE LET i == table_index(database, table_name) IN
              Ok([database EXCEPT !.data[i] = Append(@, colums)])

\* InMemoryManager::fetch
fetch(database, table_name) ==
    LET table_metadata == get_table_meta(database, table_name) IN
    IF table_metadata.res # "Ok" THEN table_metadata
    ELSE Ok(database.data[table_index(database, table_name)])

RECURSIVE insert_all(_, _, _)
\* the inserts of run_microbat into one table, each unwrapped
insert_all(database, table_name, rows) ==
    IF rows = <<>> THEN database
    ELSE insert_all(insert(database, table_name, Head(rows)).val, table_name, Tail(rows))

\* the catalog run_microbat builds before it accepts connections
bootstrap_database ==
    LET people ==
            create_table(new_manager, (* "PEOPLE" *) <<80, 69, 79, 80, 76, 69>>,
                         <<Column((* "id" *) <<105, 100>>, "Integer"), Column((* "name" *) <<110, 97, 109, 101>>, "Varchar"),
                           Column((* "age" *) <<97, 103, 101>>, "Integer")>>).val
        people_rows ==
            insert_all(people, (* "PEOPLE" *) <<80, 69, 79, 80, 76, 69>>,
                       << <<MInteger(1), MVarchar((* "Juho" *) <<74, 117, 104, 111>>), MInteger(40)>>,
                          <<MInteger(2), MVarchar((* "Simo" *) <<83, 105, 109, 111>>), MInteger(19)>>,
                          <<MInteger(3), MVarchar((* "Hermanni" *) <<72, 101, 114, 109, 97, 110, 110, 105>>), MInteger(48)>>,
                          <<MInteger(4), MVarchar((* "Taavetti" *) <<84, 97, 97, 118, 101, 116, 116, 105>>), MInteger(32)>>,
                          <<MInteger(5), MVarchar((* "Metusalem" *) <<77, 101, 116, 117, 115, 97, 108, 101, 109>>), MInteger(85)>> >>)
        departments ==
            create_table(people_rows, (* "DEPARTMENTS" *) <<68, 69, 80, 65, 82, 84, 77, 69, 78, 84, 83>>,
                         <<Column((* "id_dep" *) <<105, 100, 95, 100, 101, 112>>, "Integer"), Column((* "name_dep" *) <<110, 97, 109, 101, 95, 100, 101, 112>>, "Varchar")>>).val
        departments_rows ==
            insert_all(departments, (* "DEPARTMENTS" *) <<68, 69, 80, 65, 82, 84, 77, 69, 78, 84, 83>>,
                       << <<MInteger(1), MVarchar((* "Rustland" *) <<82, 117, 115, 116, 108, 97, 110, 100>>)>>,
                          <<MInteger(2), MVarchar((* "Goland" *) <<71, 111, 108, 97, 110, 100>>)>>,
                          <<MInteger(3), MVarchar((* "Javaland" *) <<74, 97, 118, 97, 108, 97, 110, 100>>)>>,
                          <<MInteger(4), MVarchar((* "Cppland" *) <<67, 112, 112, 108, 97, 110, 100>>)>>,
                          <<MInteger(5), MVarchar((* "Nodejsland" *) <<78, 111, 100, 101, 106, 115, 108, 97, 110, 100>>)>> >>)
        modes ==
            create_table(departments_rows, (* "MODES" *) <<77, 79, 68, 69, 83>>,
                         <<Column((* "id_mode" *) <<105, 100, 95, 109, 111, 100, 101>>, "Integer"), Column((* "name_mode" *) <<110, 97, 109, 101, 95, 109, 111, 100, 101>>, "Varchar")>>).val
    IN insert_all(modes, (* "MODES" *) <<77, 79, 68, 69, 83>>,
                  << <<MInteger(1), MVarchar((* "soft" *) <<115, 111, 102, 116>>)>>,
                     <<MInteger(2), MVarchar((* "medium" *) <<109, 101, 100, 105, 117, 109>>)>>,
                     <<MInteger(3), MVarchar((* "hard" *) <<104, 97, 114, 100>>)>> >>)

IterationOrders(n) == {p \in [1..n -> 1..n] : \A i, j \in 1..n : p[i] = p[j] => i = j}

\* the catalog with its tables in the iteration order p of the HashMap
reorder(database, p) ==
    [keys |-> [i \in 1..Len(p) |-> database.keys[p[i]]],
     tables |-> [i \in 1..Len(p) |-> database.tables[p[i]]],
     data |-> [i \in 1..Len(p) |-> database.data[p[i]]],
     seen |-> TRUE]

\* the catalog as a clause finds it: SHOW TABLES iterates the HashMap
iterated(database, clause) ==
    IF clause.res = "Ok" /\ clause.val.clause = "ShowTables" /\ ~database.seen
    THEN {reorder(database, p) : p \in IterationOrders(Len(database.keys))}
    ELSE {database}

\* RwLock::new(manager): the catalog behind its lock, held by nobody
RwLock_new(database) ==
    [database |-> database, writer |-> FALSE, readers |-> {}, poisoned |-> FALSE]

\* the lock after a thread has panicked with the write guard in its hands
poisoned_by_writer(manager) == [manager EXCEPT !.poisoned = TRUE]

\* manager.read().expect("RwLock poisoned"): the catalog, or the abort of the
\* thread when the lock is poisoned
read_expect(manager) == IF manager.poisoned THEN Panic ELSE Ok(manager.database)

\* no thread serves the connection
NoPhase == [pc |-> "none"]

(***************************************************************************)
(* The lexer of the parser: Lexer of lexer.rs, which folds identifiers to  *)
(* upper case.  parse_sql and its tests name two reserved words, SHOW and  *)
(* TABLES, and end statements with a semicolon; these are added to the    *)
(* reserved words and the delimiters of lexer.rs.  The characters of a     *)
(* statement are those of 7-bit ASCII.                                     *)
(***************************************************************************)
Unit(name) == [t |-> name]
Token_IDENTIFIER(s) == [t |-> "IDENTIFIER", s |-> s]
Token_STRING(s) == [t |-> "STRING", s |-> s]
Token_INTEGER(n) == [t |-> "INTEGER", n |-> n]
Token_FLOAT(s) == [t |-> "FLOAT", s |-> s]

is_numeric(c) == c >= 48 /\ c <= 57
is_whitespace(c) == c \in {9, 10, 11, 12, 13, 32}
NoChar == 256

\* LexerBuffer::is_delimiting; NoChar is the peek of the last character
is_delimiting(c) ==
    \/ c = NoChar
    \/ is_whitespace(c)
    \/ c \in {44 (* ',' *), 40 (* '(' *), 41 (* ')' *), 43 (* '+' *), 45 (* '-' *), 42 (* '*' *), 47 (* '/' *)}

\* the delimiters of the statements parse_sql reads: with the semicolon
is_delimiting_sql(c) == is_delimiting(c) \/ c = 59 (* ';' *)

RECURSIVE parse_digits(_)
\* the number a text of digits denotes
parse_digits(buffer) ==
    IF buffer = <<>> THEN 0
    ELSE 10 * parse_digits(SubSeq(buffer, 1, Len(buffer) - 1)) + (buffer[Len(buffer)] - 48)

RECURSIVE strip_zeros(_)
strip_zeros(buffer) ==
    IF Len(buffer) > 1 /\ buffer[1] = 48 THEN strip_zeros(Tail(buffer)) ELSE buffer

RECURSIVE digits_above(_, _)
\* whether a text of digits denotes more than another of the same length
digits_above(a, b) ==
    /\ a # <<>>
    /\ \/ a[1] > b[1]
       \/ a[1] = b[1] /\ digits_above(Tail(a), Tail(b))

\* str::parse of a text of digits to the integer of an INTEGER token, the
\* i32 of LeafExpression: an error when the number does not fit
parse_integer(buffer) ==
    LET digits == strip_zeros(buffer) IN
    IF \/ Len(digits) > 10
       \/ Len(digits) = 10 /\ digits_above(digits, (* "2147483647" *) <<50, 49, 52, 55, 52, 56, 51, 54, 52, 55>>)
    THEN Err("PosOverflow")
    ELSE Ok(parse_digits(digits))

ReservedWords ==
    {(* "CREATE" *) <<67, 82, 69, 65, 84, 69>>, (* "TABLE" *) <<84, 65, 66, 76, 69>>, (* "VALUES" *) <<86, 65, 76, 85, 69, 83>>, (* "SELECT" *) <<83, 69, 76, 69, 67, 84>>, (* "INSERT" *) <<73, 78, 83, 69, 82, 84>>, (* "UPDATE" *) <<85, 80, 68, 65, 84, 69>>,
     (* "DELETE" *) <<68, 69, 76, 69, 84, 69>>, (* "FROM" *) <<70, 82, 79, 77>>, (* "AS" *) <<65, 83>>}

ReservedWordName(word) ==
    CASE word = (* "CREATE" *) <<67, 82, 69, 65, 84, 69>> -> "CREATE" [] word = (* "TABLE" *) <<84, 65, 66, 76, 69>> -> "TABLE"
      [] word = (* "VALUES" *) <<86, 65, 76, 85, 69, 83>> -> "VALUES" [] word = (* "SELECT" *) <<83, 69, 76, 69, 67, 84>> -> "SELECT"
      [] word = (* "INSERT" *) <<73, 78, 83, 69, 82, 84>> -> "INSERT" [] word = (* "UPDATE" *) <<85, 80, 68, 65, 84, 69>> -> "UPDATE"
      [] word = (* "DELETE" *) <<68, 69, 76, 69, 84, 69>> -> "DELETE" [] word = (* "FROM" *) <<70, 82, 79, 77>> -> "FROM"
      [] word = (* "AS" *) <<65, 83>> -> "AS"

\* LexerBuffer::pop_token: the token of the buffer in a mode (the caller
\* resets the buffer).  A number that does not fit aborts (expect).
pop_token(mode, buffer) ==
    CASE mode = "Normal" ->
            LET value == to_uppercase(buffer) IN
            IF value \in ReservedWords THEN Ok(Unit(ReservedWordName(value)))
            ELSE IF value = (* "," *) <<44>> THEN Ok(Unit("COMMA"))
            ELSE IF value = (* "(" *) <<40>> THEN Ok(Unit("LPARENS"))
            ELSE IF value = (* ")" *) <<41>> THEN Ok(Unit("RPARENS"))
            ELSE IF value = (* "+" *) <<43>> THEN Ok(Unit("PLUS"))
            ELSE IF value = (* "-" *) <<45>> THEN Ok(Unit("MINUS"))
            ELSE IF value = (* "*" *) <<42>> THEN Ok(Unit("MULTIPLICATION"))
            ELSE IF value = (* "/" *) <<47>> THEN Ok(Unit("DIVISION"))
            ELSE Ok(Token_IDENTIFIER(value))
      [] mode = "String" -> Ok(Token_STRING(buffer))
      [] mode = "Integer" ->
            LET value == parse_integer(buffer) IN
            IF value.res # "Ok" THEN Panic ELSE Ok(Token_INTEGER(value.val))
      [] mode = "Float" ->
            IF Cardinality({i \in 1..Len(buffer) : buffer[i] = 46 (* '.' *)}) > 1
            THEN Panic ELSE Ok(Token_FLOAT(buffer))

\* pop_token with the reserved words and the terminator parse_sql reads
pop_token_sql(mode, buffer) ==
    IF mode = "Normal" /\ to_uppercase(buffer) = (* "SHOW" *) <<83, 72, 79, 87>> THEN Ok(Unit("SHOW"))
    ELSE IF mode = "Normal" /\ to_uppercase(buffer) = (* "TABLES" *) <<84, 65, 66, 76, 69, 83>> THEN Ok(Unit("TABLES"))
    ELSE IF mode = "Normal" /\ buffer = (* ";" *) <<59>> THEN Ok(Unit("TERMINATE"))
    ELSE pop_token(mode, buffer)

NoToken == [res |-> "None"]
LexErr(kind) == [res |-> "Err", kind |-> kind]
new_buffer == [mode |-> "Normal", buffer |-> <<>>]

\* a step of push_char: the buffer after it and what it returns
Pushed(self, out) == [self |-> self, out |-> out]
Popped(mode, buffer) == Pushed(new_buffer, pop_token_sql(mode, buffer))

\* LexerBuffer::push_char
push_char(self, char, peek) ==
    LET mode1 == IF is_numeric(char) /\ self.mode = "Normal" /\ self.buffer = <<>>
                 THEN "Integer" ELSE self.mode
        mode == IF char = 46 (* '.' *) /\ mode1 = "Integer" THEN "Float" ELSE mode1
        pushed == Append(self.buffer, char)
    IN IF char = 39 (* ''' *) /\ mode # "String"
       THEN Pushed([mode |-> "String", buffer |-> self.buffer], NoToken)
       ELSE CASE mode = "Normal" ->
                   IF is_whitespace(char) THEN Pushed([self EXCEPT !.mode = mode], NoToken)
                   ELSE IF is_delimiting_sql(char) THEN Popped(mode, pushed)
                   ELSE IF is_delimiting_sql(peek) THEN Popped(mode, pushed)
                   ELSE Pushed([mode |-> mode, buffer |-> pushed], NoToken)
              [] mode = "Integer" ->
                   IF ~is_numeric(char)
                   THEN Pushed([self EXCEPT !.mode = mode], LexErr("NotInteger"))
                   ELSE IF is_delimiting_sql(peek) THEN Popped(mode, pushed)
                   ELSE Pushed([mode |-> mode, buffer |-> pushed], NoToken)
              [] mode = "Float" ->
                   IF ~is_numeric(char) /\ char # 46 (* '.' *)
                   THEN Pushed([self EXCEPT !.mode = mode], LexErr("NotInteger"))
                   ELSE IF is_delimiting_sql(peek) THEN Popped(mode, pushed)
                   ELSE Pushed([mode |-> mode, buffer |-> pushed], NoToken)
              [] mode = "String" ->
                   IF char = 39 (* ''' *) THEN Popped(mode, self.buffer)
                   ELSE IF peek = NoChar
                        THEN Pushed([self EXCEPT !.mode = mode], LexErr("StringNotTerminated"))
                   ELSE Pushed([mode |-> mode, buffer |-> pushed], NoToken)

RECURSIVE lex_chars(_, _, _, _)
\* the loop of Lexer::with_input over the characters from position i
lex_chars(sql, i, buffer, tokens) ==
    IF i > Len(sql) THEN Ok(tokens)
    ELSE LET after(step) ==
                 CASE step.out.res = "None" -> lex_chars(sql, i + 1, step.self, tokens)
                   [] step.out.res = "Ok" ->
                        lex_chars(sql, i + 1, step.self, Append(tokens, step.out.val))
                   [] OTHER -> step.out
         IN after(push_char(buffer, sql[i], IF i < Len(sql) THEN sql[i + 1] ELSE NoChar))

\* Lexer::with_input: the tokens of a statement
with_input(sql) ==
    LET checked(tokens) ==
            IF tokens.res # "Ok" THEN tokens
            ELSE IF Len(tokens.val) = 0 THEN LexErr("NoTokens")
            ELSE tokens
    IN checked(lex_chars(sql, 1, new_buffer, <<>>))

(***************************************************************************)
(* The parser: parse_sql and the Pratt parser of expressions.  A Lexer is  *)
(* its tokens and current_position, the number of tokens consumed.         *)
(***************************************************************************)
Lexer(tokens) == [tokens |-> tokens, current_position |-> 0]

\* Lexer::next: the next token, and the lexer after it; aborts when consumed
Lexer_next(lexer) ==
    IF lexer.current_position + 1 > Len(lexer.tokens) THEN Panic
    ELSE [res |-> "Ok", val |-> lexer.tokens[lexer.current_position + 1],
          lexer |-> [lexer EXCEPT !.current_position = @ + 1]]

\* Lexer::has_next
has_next(lexer) == lexer.current_position < Len(lexer.tokens)

NoneToken == Unit("None")

\* Lexer::peek: the next token without consuming it, NoneToken at the end
peek(lexer) ==
    IF has_next(lexer) THEN lexer.tokens[lexer.current_position + 1] ELSE NoneToken

\* Lexer::peek_is
peek_is(lexer, token) == peek(lexer) = token

\* the Debug text of a token
token_debug(token) ==
    CASE token.t = "IDENTIFIER" -> (* "IDENTIFIER("" *) <<73, 68, 69, 78, 84, 73, 70, 73, 69, 82, 40, 34>> \o token.s \o (* "")" *) <<34, 41>>
      [] token.t = "STRING" -> (* "STRING("" *) <<83, 84, 82, 73, 78, 71, 40, 34>> \o token.s \o (* "")" *) <<34, 41>>
      [] token.t = "INTEGER" -> (* "INTEGER(" *) <<73, 78, 84, 69, 71, 69, 82, 40>> \o to_string(token.n) \o (* ")" *) <<41>>
      [] token.t = "FLOAT" -> (* "FLOAT(" *) <<70, 76, 79, 65, 84, 40>> \o token.s \o (* ")" *) <<41>>
      [] token.t = "SELECT" -> (* "SELECT" *) <<83, 69, 76, 69, 67, 84>> [] token.t = "FROM" -> (* "FROM" *) <<70, 82, 79, 77>>
      [] token.t = "SHOW" -> (* "SHOW" *) <<83, 72, 79, 87>> [] token.t = "TABLES" -> (* "TABLES" *) <<84, 65, 66, 76, 69, 83>>
      [] token.t = "CREATE" -> (* "CREATE" *) <<67, 82, 69, 65, 84, 69>> [] token.t = "TABLE" -> (* "TABLE" *) <<84, 65, 66, 76, 69>>
      [] token.t = "VALUES" -> (* "VALUES" *) <<86, 65, 76, 85, 69, 83>> [] token.t = "INSERT" -> (* "INSERT" *) <<73, 78, 83, 69, 82, 84>>
      [] token.t = "UPDATE" -> (* "UPDATE" *) <<85, 80, 68, 65, 84, 69>> [] token.t = "DELETE" -> (* "DELETE" *) <<68, 69, 76, 69, 84, 69>>
      [] token.t = "AS" -> (* "AS" *) <<65, 83>> [] token.t = "COMMA" -> (* "COMMA" *) <<67, 79, 77, 77, 65>>
      [] token.t = "LPARENS" -> (* "LPARENS" *) <<76, 80, 65, 82, 69, 78, 83>> [] token.t = "RPARENS" -> (* "RPARENS" *) <<82, 80, 65, 82, 69, 78, 83>>
      [] token.t = "PLUS" -> (* "PLUS" *) <<80, 76, 85, 83>> [] token.t = "MINUS" -> (* "MINUS" *) <<77, 73, 78, 85, 83>>
      [] token.t = "MULTIPLICATION" -> (* "MULTIPLICATION" *) <<77, 85, 76, 84, 73, 80, 76, 73, 67, 65, 84, 73, 79, 78>>
      [] token.t = "DIVISION" -> (* "DIVISION" *) <<68, 73, 86, 73, 83, 73, 79, 78>>
      [] token.t = "TERMINATE" -> (* "TERMINATE" *) <<84, 69, 82, 77, 73, 78, 65, 84, 69>>

\* the Display text of a LexingErrorKind
lexing_error_display(kind) ==
    CASE kind = "NoTokens" -> (* "NoTokens" *) <<78, 111, 84, 111, 107, 101, 110, 115>>
      [] kind = "NotInteger" -> (* "NotInteger" *) <<78, 111, 116, 73, 110, 116, 101, 103, 101, 114>>
      [] kind = "StringNotTerminated" -> (* "String was not terminated" *) <<83, 116, 114, 105, 110, 103, 32, 119, 97, 115, 32, 110, 111, 116, 32, 116, 101, 114, 109, 105, 110, 97, 116, 101, 100>>

\* ParseError and its Display text
ParseErr(kind, msg) == [res |-> "Err", kind |-> kind, msg |-> msg]
UnexpectedToken == ParseErr("UnexpectedToken", (* "Unexpected token... somewhere" *) <<85, 110, 101, 120, 112, 101, 99, 116, 101, 100, 32, 116, 111, 107, 101, 110, 46, 46, 46, 32, 115, 111, 109, 101, 119, 104, 101, 114, 101>>)
EndOfTokens == ParseErr("EndOfTokens", (* "Unexpected end of tokens" *) <<85, 110, 101, 120, 112, 101, 99, 116, 101, 100, 32, 101, 110, 100, 32, 111, 102, 32, 116, 111, 107, 101, 110, 115>>)
NoNud(token) == ParseErr("NoNud", (* "No nud " *) <<78, 111, 32, 110, 117, 100, 32>> \o token_debug(token))
NoLed(token) == ParseErr("NoLed", (* "No led " *) <<78, 111, 32, 108, 101, 100, 32>> \o token_debug(token))
LexingError(kind) == ParseErr(kind, lexing_error_display(kind))

\* Lexer::next_identifier: the name of the next token, an identifier
next_identifier(lexer) ==
    LET token == Lexer_next(lexer) IN
    IF token.res # "Ok" THEN token
    ELSE IF token.val.t = "IDENTIFIER"
         THEN [res |-> "Ok", val |-> token.val.s, lexer |-> token.lexer]
    ELSE UnexpectedToken

ReferenceExpression(name) == [e |-> "Reference", name |-> name]
LeafExpression(data) == [e |-> "Leaf", data |-> data]
NegateExpression(expression) == [e |-> "Negate", expression |-> expression]
OperationExpression(operation, left, right) ==
    [e |-> "Operation", operation |-> operation, left |-> left, right |-> right]

\* Token::rbp
rbp_of(token) ==
    CASE token.t = "INTEGER" -> 1
      [] token.t = "PLUS" -> 5
      [] token.t = "MINUS" -> 5
      [] token.t = "LPARENS" -> 50
      [] token.t = "RPARENS" -> 1
      [] OTHER -> 0

Parsed(val, lexer) == [res |-> "Ok", val |-> val, lexer |-> lexer]

RECURSIVE parse_expression(_, _), nud(_), led(_, _), parse_expression_loop(_, _, _)

\* nud
nud(lexer) ==
    LET token == Lexer_next(lexer) IN
    IF token.res # "Ok" THEN token
    ELSE CASE token.val.t = "IDENTIFIER" ->
                  Parsed(ReferenceExpression(token.val.s), token.lexer)
           [] token.val.t = "INTEGER" -> Parsed(LeafExpression(token.val.n), token.lexer)
           [] token.val.t = "LPARENS" -> parse_expression(token.lexer, 0)
           [] token.val.t = "MINUS" ->
                  LET negate(expression) ==
                          IF expression.res # "Ok" THEN expression
                          ELSE Parsed(NegateExpression(expression.val), expression.lexer)
                  IN negate(parse_expression(token.lexer, rbp_of(token.val)))
           [] OTHER -> NoNud(token.val)

\* led
led(lexer, left) ==
    LET token == Lexer_next(lexer) IN
    IF token.res # "Ok" THEN token
    ELSE CASE token.val.t \in {"PLUS", "MINUS"} ->
                  LET operate(right) ==
                          IF right.res # "Ok" THEN right
                          ELSE Parsed(OperationExpression(IF token.val.t = "PLUS" THEN "Plus"
                                                          ELSE "Minus", left, right.val),
                                      right.lexer)
                  IN operate(parse_expression(token.lexer, rbp_of(token.val)))
           [] token.val.t = "RPARENS" -> Parsed(left, token.lexer)
           [] OTHER -> NoLed(token.val)

\* the while loop of parse_expression
parse_expression_loop(lexer, rbp, left) ==
    IF ~has_next(lexer) THEN EndOfTokens
    ELSE IF rbp_of(peek(lexer)) > rbp
         THEN LET again(next_left) ==
                      IF next_left.res # "Ok" THEN next_left
                      ELSE parse_expression_loop(next_left.lexer, rbp, next_left.val)
              IN again(led(lexer, left))
    ELSE Parsed(left, lexer)

\* parse_expression
parse_expression(lexer, rbp) ==
    LET loop(left) ==
            IF left.res # "Ok" THEN left
            ELSE parse_expression_loop(left.lexer, rbp, left.val)
    IN loop(nud(lexer))

RECURSIVE parse_projection(_, _), parse_from(_, _)

\* the loop of parse_sql over the expressions after a comma
parse_projection(lexer, exprs) ==
    IF peek(lexer) = Unit("COMMA")
    THEN LET push(expr) ==
                 IF expr.res # "Ok" THEN expr
                 ELSE parse_projection(expr.lexer, Append(exprs, expr.val))
         IN push(parse_expression(Lexer_next(lexer).lexer, 0))
    ELSE Parsed(exprs, lexer)

\* a parse_sql that takes nothing but the end of the statement behind the first table
parse_from_strict(lexer, from) ==
    IF has_next(lexer) /\ peek(lexer) # Unit("TERMINATE") THEN UnexpectedToken
    ELSE Parsed(from, lexer)

\* the loop of parse_sql over the table names after a comma
parse_from(lexer, from) ==
    IF peek(lexer) = Unit("COMMA")
    THEN LET token == Lexer_next(Lexer_next(lexer).lexer) IN
         IF token.res # "Ok" THEN token
         ELSE IF token.val.t = "IDENTIFIER"
              THEN parse_from(token.lexer, Append(from, token.val.s))
         ELSE UnexpectedToken
    ELSE Parsed(from, lexer)

ShowTables == [clause |-> "ShowTables"]
Select(projection, from) == [clause |-> "Select", projection |-> projection, from |-> from]

\* parse_sql, the FROM of a SELECT: the table names after the projection
parse_select_from(exprs) ==
    IF exprs.res # "Ok" THEN exprs
    ELSE IF peek_is(exprs.lexer, Unit("FROM"))
         THEN LET rest(name) ==
                      IF name.res # "Ok" THEN name
                      ELSE LET select(from) ==
                                   IF from.res # "Ok" THEN from
                                   ELSE Ok(Select(exprs.val, from.val))
                           IN select(parse_from(name.lexer, <<name.val>>))
              IN rest(next_identifier(Lexer_next(exprs.lexer).lexer))
    ELSE Ok(Select(exprs.val, <<>>))

\* parse_sql, the statement of a Lexer
parse_clause(tokens) ==
    IF tokens.res = "Panic" THEN Panic
    ELSE IF tokens.res = "Err" THEN LexingError(tokens.kind)
    ELSE LET first == Lexer_next(Lexer(tokens.val)) IN
         CASE first.val.t = "SHOW" ->
                  LET second == Lexer_next(first.lexer) IN
                  IF second.res # "Ok" THEN second
                  ELSE IF second.val = Unit("TABLES") THEN Ok(ShowTables)
                  ELSE UnexpectedToken
           [] first.val.t = "SELECT" ->
                  LET projection(expr) ==
                          IF expr.res # "Ok" THEN expr
                          ELSE parse_select_from(parse_projection(expr.lexer, <<expr.val>>))
                  IN projection(parse_expression(first.lexer, 0))
           [] OTHER -> UnexpectedToken

\* parse_sql
parse_sql(sql) == parse_clause(with_input(sql))

(***************************************************************************)
(* Evaluation of expressions on a row of a table, and execute_sql.         *)
(***************************************************************************)
\* i32::to_string
i32_to_string(v) ==
    IF v >= 0 THEN to_string(v)
    ELSE LET digit == (10 - (v % 10)) % 10
             rest == (-(v \div 10)) - (IF v % 10 # 0 THEN 1 ELSE 0)
         IN (* "-" *) <<45>> \o (IF rest = 0 THEN <<>> ELSE to_string(rest)) \o <<48 + digit>>

\* the Debug text of a value
mdata_debug(d) ==
    CASE d.t = "Null" -> (* "Null" *) <<78, 117, 108, 108>>
      [] d.t = "Integer" -> (* "Integer(" *) <<73, 110, 116, 101, 103, 101, 114, 40>> \o i32_to_string(d.i) \o (* ")" *) <<41>>
      [] d.t = "Varchar" -> (* "Varchar("" *) <<86, 97, 114, 99, 104, 97, 114, 40, 34>> \o d.s \o (* "")" *) <<34, 41>>

\* whether l + r leaves the 32-bit signed integers
add_overflows(l, r) ==
    \/ r > 0 /\ l > 2147483647 - r
    \/ r < 0 /\ l < (-2147483647 - 1) - r

\* MData::apply_plus; an overflowing addition aborts, as the arithmetic of a
\* build with overflow checks does
apply_plus(left, right) ==
    IF left.t = "Integer" /\ right.t = "Integer"
    THEN IF add_overflows(left.i, right.i) THEN Panic ELSE Ok(MInteger(left.i + right.i))
    ELSE DataErr((* "Can't apply " *) <<67, 97, 110, 39, 116, 32, 97, 112, 112, 108, 121, 32>> \o mdata_debug(left) \o (* " + " *) <<32, 43, 32>> \o mdata_debug(right))

\* MData::apply_minus
apply_minus(left, right) ==
    IF left.t = "Integer" /\ right.t = "Integer"
    THEN IF right.i = -2147483647 - 1
         THEN (IF left.i >= 0 THEN Panic ELSE Ok(MInteger((left.i + 2147483647) + 1)))
         ELSE IF add_overflows(left.i, -right.i) THEN Panic
         ELSE Ok(MInteger(left.i - right.i))
    ELSE DataErr((* "Can't apply " *) <<67, 97, 110, 39, 116, 32, 97, 112, 112, 108, 121, 32>> \o mdata_debug(left) \o (* " + " *) <<32, 43, 32>> \o mdata_debug(right))

\* a lookup that compares the stored name as it is with the name of the reference
position_exact(schema, name) ==
    LET found == {i \in 1..Len(schema) : schema[i].name = name} IN
    IF found = {} THEN 0 ELSE CHOOSE i \in found : \A j \in found : i <= j

\* the position of the first column of the schema that name refers to, 0 if none
position(schema, name) ==
    LET found == {i \in 1..Len(schema) : to_uppercase(schema[i].name) = name} IN
    IF found = {} THEN 0 ELSE CHOOSE i \in found : \A j \in found : i <= j

RECURSIVE eval(_, _, _)
\* Expression::eval of AsExpression, ReferenceExpression, LeafExpression,
\* NegateExpression and OperationExpression
eval(expr, schema, row) ==
    CASE expr.e = "As" -> eval(expr.expression, schema, row)
      [] expr.e = "Reference" ->
            LET index == position(schema, expr.name) IN
            IF index = 0 THEN DataErr((* "No such column " *) <<78, 111, 32, 115, 117, 99, 104, 32, 99, 111, 108, 117, 109, 110, 32>> \o expr.name)
            ELSE IF index > Len(row) THEN Panic
            ELSE Ok(row[index])
      [] expr.e = "Leaf" -> Ok(MInteger(expr.data))
      [] expr.e = "Negate" ->
            LET val == eval(expr.expression, schema, row) IN
            IF val.res # "Ok" THEN val
            ELSE IF val.val.t = "Integer" /\ val.val.i # -2147483647 - 1
                 THEN Ok(MInteger(-val.val.i))
            ELSE Panic
      [] expr.e = "Operation" ->
            LET l == eval(expr.left, schema, row) IN
            IF l.res # "Ok" THEN l
            ELSE LET r == eval(expr.right, schema, row) IN
                 IF r.res # "Ok" THEN r
                 ELSE IF expr.operation = "Plus" THEN apply_plus(l.val, r.val)
                 ELSE apply_minus(l.val, r.val)

QueryTable(description, data) == [res |-> "Ok", description |-> description, data |-> data]
MicrobatQueryError(msg) == [res |-> "Err", msg |-> msg]

RECURSIVE select_rows(_, _, _, _, _, _, _)
\* the loops of execute_sql over the rows of the table and the expressions of
\* the projection: the columns and the values gathered, or the abort on a
\* value that is no Integer or an evaluation that fails
select_rows(projection, schema, table, r, index, columns, data_rows) ==
    IF r > Len(table) THEN QueryTable(columns, <<data_rows>>)
    ELSE IF index > Len(projection)
         THEN select_rows(projection, schema, table, r + 1, 1, columns, data_rows)
    ELSE LET val == eval(projection[index], schema, table[r]) IN
         IF val.res = "Ok" /\ val.val.t = "Integer"
         THEN select_rows(projection, schema, table, r, index + 1,
                          Append(columns, Column((* "column_" *) <<99, 111, 108, 117, 109, 110, 95>> \o to_string(index - 1), "Integer")),
                          Append(data_rows, val.val))
         ELSE Panic

\* execute_sql, after parse_sql: the clause is executed on the catalog
execute_clause(clause, database) ==
    IF clause.res = "Panic" THEN Panic
    ELSE IF clause.res = "Err" THEN MicrobatQueryError(clause.msg)
    ELSE IF clause.val.clause = "ShowTables"
         THEN LET tables == get_tables(database).val IN
              QueryTable(<<Column((* "table" *) <<116, 97, 98, 108, 101>>, "Varchar")>>,
                         [i \in 1..Len(tables) |-> <<MVarchar(tables[i])>>])
    ELSE IF clause.val.from = <<>> THEN Panic
    ELSE LET table == fetch(database, clause.val.from[1]) IN
         IF table.res # "Ok" THEN MicrobatQueryError(table.msg)
         ELSE select_rows(clause.val.projection,
                          get_table_meta(database, clause.val.from[1]).val.schema,
                          table.val, 1, 1, <<>>, <<>>)

\* execute_sql
execute_sql(sql, database) == execute_clause(parse_sql(sql), database)

(***************************************************************************)
(* Reading a message from a stream.  buffered is what the peer has sent    *)
(* and the reader has not consumed; eof tells that the peer has closed its *)
(* side, so that nothing will follow.  A read that needs more bytes than   *)
(* are buffered blocks while the peer may still send them.                 *)
(***************************************************************************)
\* a reader that tries the messages of both roles, whatever its own
deserialize_any_role(role, message_type, length, bytes) ==
    LET both(message) ==
            IF message = Err("UnknownMessageType")
            THEN deserialize_server_message(message_type, length, bytes)
            ELSE message
    IN both(deserialize_client_message(message_type, length, bytes))

deserialize(role, message_type, length, bytes) ==
    IF role = "client"
    THEN deserialize_client_message(message_type, length, bytes)
    ELSE deserialize_server_message(message_type, length, bytes)

Block == [res |-> "Block"]
ReadErr(kind, rest) == [res |-> "Err", kind |-> kind, rest |-> rest]

\* read_message: the message (or the error, or the abort of the unwrapped
\* read_exact of the payload) and the bytes left in the stream
read_message(buffered, eof, role) ==
    IF buffered = <<>> THEN (IF eof THEN ReadErr("unexpected hangup", <<>>) ELSE Block)
    ELSE IF buffered[1] = 0 THEN ReadErr("unexpected hangup", Tail(buffered))
    ELSE IF Len(buffered) < 5 THEN (IF eof THEN ReadErr("UnexpectedEof", <<>>) ELSE Block)
    ELSE LET length == u32_from_le_bytes(SubSeq(buffered, 2, 5)) IN
         IF length > Len(buffered) - 5 THEN (IF eof THEN Panic ELSE Block)
         ELSE LET message == deserialize(role, buffered[1], length,
                                         SubSeq(buffered, 6, 5 + length))
              IN IF message.res = "Panic" THEN Panic
                 ELSE [message EXCEPT !.res = @] @@ [rest |-> SubSeqFrom(buffered, 6 + length)]

(***************************************************************************)
(* The server: one worker (handle_connection) per connection, all on the   *)
(* catalog run_microbat has built, and the clients of the connections.     *)
(*   c2s     the bytes a client has sent and its worker has not read       *)
(*   closed  whether the client has closed its side of the connection      *)
(*   s2c     the bytes the worker has written and the client has not read  *)
(*   worker  running, exited (break on DISCONNECT), failed (break on a     *)
(*           read error) or panicked (the thread aborted)                  *)
(*   turn    the latest turn of the loop of the worker: the request read,  *)
(*           the messages sent in response and the bytes written           *)
(*   client  the position of the client in handshake() and what it read    *)
(* A write to the connection succeeds: the client keeps its reading side   *)
(* open.  A client reads what arrives in handshake() and in query(); what  *)
(* arrives outside them is dropped.                                        *)
(***************************************************************************)
Conns == {1, 2}

ClientQueries ==
    {(* "show tables" *) <<115, 104, 111, 119, 32, 116, 97, 98, 108, 101, 115>>, (* "select bogus from PEOPLE" *) <<115, 101, 108, 101, 99, 116, 32, 98, 111, 103, 117, 115, 32, 102, 114, 111, 109, 32, 80, 69, 79, 80, 76, 69>>, (* "select 1 from NOPE" *) <<115, 101, 108, 101, 99, 116, 32, 49, 32, 102, 114, 111, 109, 32, 78, 79, 80, 69>>,
     (* "select 1;" *) <<115, 101, 108, 101, 99, 116, 32, 49, 59>>, (* "select -name_mode from MODES" *) <<115, 101, 108, 101, 99, 116, 32, 45, 110, 97, 109, 101, 95, 109, 111, 100, 101, 32, 102, 114, 111, 109, 32, 77, 79, 68, 69, 83>>,
     (* "select id_mode from MODES" *) <<115, 101, 108, 101, 99, 116, 32, 105, 100, 95, 109, 111, 100, 101, 32, 102, 114, 111, 109, 32, 77, 79, 68, 69, 83>>, (* "select ID_MODE from MODES" *) <<115, 101, 108, 101, 99, 116, 32, 73, 68, 95, 77, 79, 68, 69, 32, 102, 114, 111, 109, 32, 77, 79, 68, 69, 83>>,
     (* "select Id_Mode from MODES" *) <<115, 101, 108, 101, 99, 116, 32, 73, 100, 95, 77, 111, 100, 101, 32, 102, 114, 111, 109, 32, 77, 79, 68, 69, 83>>, (* "select id_mode, name_mode from MODES" *) <<115, 101, 108, 101, 99, 116, 32, 105, 100, 95, 109, 111, 100, 101, 44, 32, 110, 97, 109, 101, 95, 109, 111, 100, 101, 32, 102, 114, 111, 109, 32, 77, 79, 68, 69, 83>>}

\* what a client may write: frames of messages, and bytes that are none
ClientFrames ==
    {client_as_bytes(CDisconnect)}
        \cup {client_as_bytes(CQuery(q)) : q \in ClientQueries}
        \cup { <<122 (* 'z' *), 0, 0, 0, 0>>,           \* an unknown message type
               <<0>>,                              \* a null byte
               <<113 (* 'q' *), 1, 0, 0, 0, 159>>,      \* a query that is not UTF-8
               <<113 (* 'q' *), 9, 0, 0, 0, 115 (* 's' *)>>, \* a payload cut short
               <<113 (* 'q' *), 1>> }                   \* a length cut short

NoTurn == [request |-> [kind |-> "None"], frame |-> <<>>, response |-> <<>>, written |-> <<>>]

\* the tables the catalog is called with on its own, as the tests of manager.rs do
TableNames == {(* "foo" *) <<102, 111, 111>>, (* "bar" *) <<98, 97, 114>>}

\* no call has been made
NoOp == [n |-> 0, kind |-> "none"]

ServerInit ==
    /\ db = bootstrap_database
    /\ op = NoOp
    /\ inserted = [name \in TableNames |-> <<>>]
    /\ c2s = [c \in Conns |-> <<>>]
    /\ closed = [c \in Conns |-> FALSE]
    /\ s2c = [c \in Conns |-> <<>>]
    /\ worker = [c \in Conns |-> "running"]
    /\ turn = [c \in Conns |-> NoTurn]
    /\ client = [c \in Conns |-> [pc |-> "idle", got |-> <<>>]]
    /\ nsent = 0
    /\ rwlock = RwLock_new(new_manager)
    /\ main = [pc |-> "new", step |-> 0, half |-> FALSE, thread_id |-> 1]
    /\ phase = [c \in Conns |-> NoPhase]

\* parse_sql of the statements the clients write, computed once
ParsedQueries == [sql \in ClientQueries |-> parse_sql(sql)]

parsed(sql) == IF sql \in ClientQueries THEN ParsedQueries[sql] ELSE parse_sql(sql)

InHandshake(c) == client[c].pc \in {"read_handshake", "read_ready"}

\* the client is in MicroBatTcpClient::query, between its send and its return
InQuery(c) == client[c].pc \in {"query", "rows", "ready"}

\* the client writes a frame
ClientSend(c) ==
    /\ ~closed[c] /\ ~InHandshake(c) /\ ~InQuery(c) /\ nsent < MaxSends
    /\ \E frame \in ClientFrames : c2s' = [c2s EXCEPT ![c] = @ \o frame]
    /\ nsent' = nsent + 1
    /\ UNCHANGED <<db, closed, s2c, worker, turn, client, codecVars, engineVars, lockVars>>

\* the client closes its side of the connection
ClientClose(c) ==
    /\ ~closed[c] /\ ~InHandshake(c) /\ ~InQuery(c)
    /\ closed' = [closed EXCEPT ![c] = TRUE]
    /\ UNCHANGED <<db, c2s, s2c, worker, turn, client, nsent, codecVars, engineVars, lockVars>>

\* MicroBatTcpClient::handshake: the Handshake is sent
ClientHandshake(c) ==
    /\ ~closed[c] /\ client[c].pc = "idle" /\ nsent < MaxSends
    /\ c2s' = [c2s EXCEPT ![c] = @ \o client_as_bytes(CHandshake)]
    /\ client' = [client EXCEPT ![c].pc = "read_handshake"]
    /\ nsent' = nsent + 1
    /\ UNCHANGED <<db, closed, s2c, worker, turn, codecVars, engineVars, lockVars>>

\* what a read of the client returns: the stream ends when the worker is gone
client_read(c) == read_message(s2c[c], worker[c] # "running", "server")

\* read_handshake, called by handshake
ClientReadHandshake(c) ==
    /\ client[c].pc = "read_handshake"
    /\ LET message == client_read(c) IN
       /\ message.res # "Block"
       /\ IF message.res = "Ok" /\ message.val = SHandshake
          THEN client' = [client EXCEPT ![c].pc = "read_ready",
                                        ![c].got = Append(@, message.val)]
          ELSE client' = [client EXCEPT ![c].pc = "failed"]
       /\ s2c' = [s2c EXCEPT ![c] = IF message.res = "Panic" THEN @ ELSE message.rest]
    /\ UNCHANGED <<db, c2s, closed, worker, turn, nsent, codecVars, engineVars, lockVars>>

\* read_ready, called by handshake, which returns Ok after it
ClientReadReady(c) ==
    /\ client[c].pc = "read_ready"
    /\ LET message == client_read(c) IN
       /\ message.res # "Block"
       /\ IF message.res = "Ok" /\ message.val = SReady
          THEN client' = [client EXCEPT ![c].pc = "connected",
                                        ![c].got = Append(@, message.val)]
          ELSE client' = [client EXCEPT ![c].pc = "failed"]
       /\ s2c' = [s2c EXCEPT ![c] = IF message.res = "Panic" THEN @ ELSE message.rest]
    /\ UNCHANGED <<db, c2s, closed, worker, turn, nsent, codecVars, engineVars, lockVars>>

\* what the read of the worker at the head of its loop returns
worker_read(c) == read_message(c2s[c], closed[c], "client")

\* the bytes of the frame a read has consumed
consumed(c, message) == SubSeq(c2s[c], 1, Len(c2s[c]) - Len(message.rest))

\* a turn: the request and the messages sent in response
Served(request, frame, response) ==
    [request |-> request, frame |-> frame, response |-> response,
     written |-> Flatten([i \in 1..Len(response) |-> server_as_bytes(response[i])])]

\* one turn of the loop of handle_connection: the request is consumed, the
\* response is written and the worker goes on, or leaves the loop
Turn(c, rest, entry, state) ==
    /\ c2s' = [c2s EXCEPT ![c] = rest]
    /\ s2c' = [s2c EXCEPT ![c] = IF InHandshake(c) \/ InQuery(c)
                                  THEN @ \o entry.written ELSE @]
    /\ turn' = [turn EXCEPT ![c] = entry]
    /\ worker' = [worker EXCEPT ![c] = state]
    /\ UNCHANGED <<closed, client, nsent, codecVars, engineVars, lockVars>>

\* a worker that answers the first Handshake of its connection only
HandleHandshake_Once(c, message) ==
    /\ message.res = "Ok" /\ message.val.kind = "Handshake"
    /\ IF turn[c] = NoTurn
       THEN Turn(c, message.rest,
                 Served(message.val, consumed(c, message), <<SHandshake, SReady>>), "running")
       ELSE Turn(c, message.rest,
                 Served(message.val, consumed(c, message), <<SReady>>), "running")
    /\ UNCHANGED db

\* a worker that answers a Handshake with the Ready before the Handshake
HandleHandshake_ReadyFirst(c, message) ==
    /\ message.res = "Ok" /\ message.val.kind = "Handshake"
    /\ Turn(c, message.rest,
            Served(message.val, consumed(c, message), <<SReady, SHandshake>>), "running")
    /\ UNCHANGED db

\* handle_connection, Handshake: the Handshake and Ready are sent
HandleHandshake(c, message) ==
    /\ message.res = "Ok" /\ message.val.kind = "Handshake"
    /\ Turn(c, message.rest,
            Served(message.val, consumed(c, message), <<SHandshake, SReady>>), "running")
    /\ UNCHANGED db

\* a worker that goes on with its loop after a Disconnect
HandleDisconnect_NoBreak(c, message) ==
    /\ message.res = "Ok" /\ message.val.kind = "Disconnect"
    /\ Turn(c, message.rest, Served(message.val, consumed(c, message), <<>>), "running")
    /\ UNCHANGED db

\* handle_connection, Disconnect: break
HandleDisconnect(c, message) ==
    /\ message.res = "Ok" /\ message.val.kind = "Disconnect"
    /\ Turn(c, message.rest, Served(message.val, consumed(c, message), <<>>), "exited")
    /\ UNCHANGED db

\* the messages sent for the result of execute_sql, before the Ready
query_response(result) ==
    IF result.res = "Ok"
    THEN <<SDataDescription(result.description)>>
             \o [i \in 1..Len(result.data) |-> SDataRow(result.data[i])]
    ELSE <<SError(result.msg)>>

\* handle_connection, Query: the result of execute_sql is sent, then Ready;
\* an abort in execute_sql ends the thread before anything is sent
HandleQuery(c, message) ==
    /\ message.res = "Ok" /\ message.val.kind = "Query"
    /\ LET clause == parsed(message.val.text) IN
       \E database \in iterated(db, clause) :
          /\ db' = database
          /\ LET result == execute_clause(clause, database) IN
             IF result.res = "Panic"
             THEN Turn(c, message.rest, Served(message.val, consumed(c, message), <<>>),
                       "panicked")
             ELSE Turn(c, message.rest,
                       Served(message.val, consumed(c, message),
                              Append(query_response(result), SReady)),
                       "running")

\* a worker that goes on with its loop after an error of the read
HandleReadError_NoBreak(c, message) ==
    /\ message.res = "Err"
    /\ Turn(c, message.rest,
            Served([kind |-> "ReadError", error |-> message.kind],
                   consumed(c, message), <<>>),
            "running")
    /\ UNCHANGED db

\* handle_connection, the read returns an error: break
HandleReadError(c, message) ==
    /\ message.res = "Err"
    /\ Turn(c, message.rest,
            Served([kind |-> "ReadError", error |-> message.kind],
                   consumed(c, message), <<>>),
            "failed")
    /\ UNCHANGED db

\* handle_connection, the read aborts (the payload is cut short)
HandleReadPanic(c, message) ==
    /\ message.res = "Panic"
    /\ Turn(c, <<>>, Served([kind |-> "ReadPanic"], c2s[c], <<>>), "panicked")
    /\ UNCHANGED db

\* handle_connection: one turn of the loop of the worker of a connection
handle_connection(c) ==
    /\ worker[c] = "running"
    /\ LET message == worker_read(c) IN
       \/ HandleHandshake(c, message)
       \/ HandleDisconnect(c, message)
       \/ HandleQuery(c, message)
       \/ HandleReadError(c, message)
       \/ HandleReadPanic(c, message)

\* nothing has been serialized or deserialized
NoResult == [res |-> "None"]

Init == ServerInit /\ cmsg = [src |-> "none"] /\ wire = <<>> /\ decoded = NoResult

Next ==
    \/ \E c \in Conns : ClientSend(c)
    \/ \E c \in Conns : ClientClose(c)
    \/ \E c \in Conns : ClientHandshake(c)
    \/ \E c \in Conns : ClientReadHandshake(c)
    \/ \E c \in Conns : ClientReadReady(c)
    \/ \E c \in Conns : handle_connection(c)

Spec == Init /\ [][Next]_vars

(***************************************************************************)
(* The codec harness: a message is serialized with as_bytes(), and the     *)
(* frame is split as the tests and read_message split it (type byte,       *)
(* length field, the rest) and handed to the deserializer of the same      *)
(* role; or a raw (type, length, payload) triple is handed to it.          *)
(***************************************************************************)
SeqsUpTo(set, n) == UNION {[1..k -> set] : k \in 0..n}

CodecTexts == {<<>>, (* "abba" *) <<97, 98, 98, 97>>, <<104, 195, 169>>, (* "select 'x';" *) <<115, 101, 108, 101, 99, 116, 32, 39, 120, 39, 59>>}
CodecInts == {-2147483647 - 1, -83728, -1, 0, 1, 83728, 2147483647}
CodecValues ==
    {MNull} \cup {MInteger(i) : i \in CodecInts} \cup {MVarchar(t) : t \in CodecTexts}
CodecColumns ==
    {Column(n, t) : n \in {<<>>, (* "foo" *) <<102, 111, 111>>, <<195, 169>>}, t \in {"Null", "Integer", "Varchar"}}
CodecCounts == {0, 1, 65536, 2147483647}

ClientMessages == {CHandshake, CDisconnect} \cup {CQuery(t) : t \in CodecTexts}
ServerMessages ==
    {SHandshake, SReady}
        \cup {SError(t) : t \in CodecTexts}
        \cup {SDataDescription(cs) : cs \in SeqsUpTo(CodecColumns, MaxRowLen)}
        \cup {SDataRow(vs) : vs \in SeqsUpTo(CodecValues, MaxRowLen)}
        \cup {SInsertResult(n) : n \in CodecCounts}

\* pieces of raw payloads: well-formed and malformed column chunks and texts
RawChunks ==
    { <<105 (* 'i' *), 4, 0, 0, 0, 0, 1, 71, 16>>,     \* Integer(83728)
      <<105 (* 'i' *), 1, 0, 0, 0, 7>>,                \* an Integer of one byte
      <<110 (* 'n' *), 0, 0, 0, 0>>,                   \* Null
      <<118 (* 'v' *), 1, 0, 0, 0, 159>>,              \* a Varchar that is not UTF-8
      <<122 (* 'z' *), 0, 0, 0, 0>>,                   \* an unknown value type tag
      <<3, 0, 0, 0, 102 (* 'f' *), 111 (* 'o' *), 111 (* 'o' *)>>, \* the column name foo
      <<5, 0, 0, 0, 97 (* 'a' *)>>,                   \* a name declared longer than the buffer
      <<159, 0>> }                                \* text that is not UTF-8
RawPayloads ==
    { SubSeq(Flatten(cs), 1, Len(Flatten(cs)) - cut) :
        cs \in SeqsUpTo(RawChunks, MaxChunks), cut \in 0..2 }
RawTypeBytes ==
    {0, 104 (* 'h' *), 97 (* 'a' *), 113 (* 'q' *), 100 (* 'd' *), 98 (* 'b' *), 120 (* 'x' *), 101 (* 'e' *), 114 (* 'r' *), 105 (* 'i' *)}

SerializeClient ==
    /\ cmsg.src = "none"
    /\ \E m \in ClientMessages :
          /\ cmsg' = [src |-> "message", role |-> "client", msg |-> m]
          /\ wire' = client_as_bytes(m)
    /\ UNCHANGED <<decoded, serverVars, engineVars, lockVars>>

SerializeServer ==
    /\ cmsg.src = "none"
    /\ \E m \in ServerMessages :
          /\ cmsg' = [src |-> "message", role |-> "server", msg |-> m]
          /\ wire' = server_as_bytes(m)
    /\ UNCHANGED <<decoded, serverVars, engineVars, lockVars>>

\* let length = u32::from_le_bytes(bytes[1..5]); deserialize(bytes[0], length, &bytes[5..])
DeserializeFrame ==
    /\ cmsg.src = "message"
    /\ decoded = NoResult
    /\ decoded' = deserialize(cmsg.role, wire[1], u32_from_le_bytes(SubSeq(wire, 2, 5)),
                              SubSeqFrom(wire, 6))
    /\ UNCHANGED <<cmsg, wire, serverVars, engineVars, lockVars>>

DeserializeRaw ==
    /\ cmsg.src = "none"
    /\ \E role \in {"client", "server"}, t \in RawTypeBytes, p \in RawPayloads,
          l \in 0..1 :
          /\ cmsg' = [src |-> "raw", role |-> role, message_type |-> t,
                      length |-> Len(p) + l, bytes |-> p]
          /\ decoded' = deserialize(role, t, Len(p) + l, p)
    /\ UNCHANGED <<wire, serverVars, engineVars, lockVars>>

CodecNext == SerializeClient \/ SerializeServer \/ DeserializeFrame \/ DeserializeRaw

\* the codec is exercised on its own: the server stays as run_microbat built it
SpecCodec == Init /\ [][CodecNext]_vars

(***************************************************************************)
(* Properties of the server.  A step is a turn of the worker of c when it  *)
(* changes turn[c]: a worker that takes a turn was running, and no turn    *)
(* repeats the one before it on the bytes left.  The client appends to     *)
(* c2s[c] and the worker reads from its head; the worker appends to s2c[c] *)
(* and the client reads from its head: nothing is read of c2s[c] while it  *)
(* is a prefix of what it becomes, nothing is written to s2c[c] while what *)
(* it becomes is a suffix of it.                                           *)
(***************************************************************************)
IsPrefix(a, b) == Len(a) <= Len(b) /\ SubSeq(b, 1, Len(a)) = a
IsSuffix(a, b) == Len(a) <= Len(b) /\ SubSeq(b, Len(b) - Len(a) + 1, Len(b)) = a

\* the number of Ready messages in a response
ReadyCount(response) == Cardinality({i \in 1..Len(response) : response[i] = SReady})

\* the worker of c has answered a Query in its latest turn
QueryTurn(c) == turn[c].request.kind = "Query"

\* C1: for every QUERY the worker reads, the messages sent in response end
\* with a READY, and hold exactly one; no QUERY is left without its READY
C1_QueryEndsWithReady ==
    \A c \in Conns :
        QueryTurn(c) =>
            /\ turn[c].response # <<>>
            /\ turn[c].response[Len(turn[c].response)] = SReady
            /\ ReadyCount(turn[c].response) = 1

\* the shapes of a response to a QUERY: a rowset, an error, an insert result
IsRowset(response) ==
    /\ Len(response) >= 2
    /\ response[1].kind = "DataDescription"
    /\ \A i \in 2..(Len(response) - 1) : response[i].kind = "DataRow"
    /\ response[Len(response)] = SReady

IsErrorResponse(response) ==
    Len(response) = 2 /\ response[1].kind = "Error" /\ response[2] = SReady

IsInsertResponse(response) ==
    Len(response) = 2 /\ response[1].kind = "InsertResult" /\ response[2] = SReady

\* C2: the messages sent in response to a QUERY are DATA_DESCRIPTION, DATA_ROW*
\* and READY, or ERROR and READY, or INSERT_RESULT and READY
C2_ResponseShape ==
    \A c \in Conns :
        QueryTurn(c) =>
            \/ IsRowset(turn[c].response)
            \/ IsErrorResponse(turn[c].response)
            \/ IsInsertResponse(turn[c].response)

\* C3: a client HANDSHAKE frame is answered with the server HANDSHAKE ('b',
\* length 12) and then READY ('x', length 5), and nothing else; handshake() of
\* the client has returned Ok only when it has read both, in this order
C3_Handshake ==
    \A c \in Conns :
        /\ turn[c].frame = <<97 (* 'a' *), 14, 0, 0, 0>> \o (* "hello microbat" *) <<104, 101, 108, 108, 111, 32, 109, 105, 99, 114, 111, 98, 97, 116>> =>
              /\ turn[c].request = CHandshake
              /\ turn[c].response = <<SHandshake, SReady>>
              /\ turn[c].written = <<98 (* 'b' *), 12, 0, 0, 0>> \o (* "hello client" *) <<104, 101, 108, 108, 111, 32, 99, 108, 105, 101, 110, 116>>
                                      \o <<120 (* 'x' *), 5, 0, 0, 0>> \o (* "shoot" *) <<115, 104, 111, 111, 116>>
              /\ worker[c] = "running"
        /\ client[c].pc = "connected" => client[c].got = <<SHandshake, SReady>>

\* C3: handshake() of a client has returned Ok on the answer of its worker
C3_Witness ==
    \E c \in Conns :
        /\ client[c].pc = "connected"
        /\ turn[c].request.kind = "Handshake"
        /\ s2c[c] = <<>>

\* C4: a QUERY that fails is answered with ERROR and READY and leaves the worker
\* in its loop, ready for the next QUERY; select bogus from PEOPLE is answered
\* with ERROR("No such column BOGUS")
C4_QueryErrorUsable ==
    \A c \in Conns :
        /\ (QueryTurn(c) /\ ~IsRowset(turn[c].response)) =>
              /\ IsErrorResponse(turn[c].response)
              /\ worker[c] = "running"
        /\ (QueryTurn(c) /\ turn[c].request.text = (* "select bogus from PEOPLE" *) <<115, 101, 108, 101, 99, 116, 32, 98, 111, 103, 117, 115, 32, 102, 114, 111, 109, 32, 80, 69, 79, 80, 76, 69>>) =>
              turn[c].response = <<SError((* "No such column BOGUS" *) <<78, 111, 32, 115, 117, 99, 104, 32, 99, 111, 108, 117, 109, 110, 32, 66, 79, 71, 85, 83>>), SReady>>

\* C5: on a DISCONNECT the worker writes nothing and leaves its loop; from then
\* on it takes no turn: it reads nothing of what the client sends, and writes
\* nothing
C5_Disconnect ==
    [][\A c \in Conns :
          /\ (turn'[c] # turn[c] /\ turn'[c].request.kind = "Disconnect") =>
                /\ turn'[c].response = <<>> /\ turn'[c].written = <<>>
                /\ s2c'[c] = s2c[c]
                /\ worker'[c] = "exited"
          /\ worker[c] = "exited" =>
                /\ worker'[c] = "exited"
                /\ turn'[c] = turn[c]
                /\ IsSuffix(s2c'[c], s2c[c])
                /\ IsPrefix(c2s[c], c2s'[c])]_vars

\* C5: a worker has left its loop on a DISCONNECT, and a frame the client has
\* sent after it is left unread
C5_Witness ==
    \E c \in Conns :
        /\ worker[c] = "exited"
        /\ turn[c].request.kind = "Disconnect"
        /\ c2s[c] # <<>>

\* the read of the worker of c has failed: with an error, or with an abort
ReadFailed(c) == turn[c].request.kind \in {"ReadError", "ReadPanic"}

\* C6: when the read of a frame fails the worker writes nothing and leaves its
\* loop, and the workers of the other connections and what they have to read
\* are as they were; from then on it takes no turn (the read is not retried)
C6_ProtocolErrorFatal ==
    [][\A c \in Conns :
          /\ (turn'[c] # turn[c] /\ ReadFailed(c)') =>
                /\ turn'[c].response = <<>> /\ turn'[c].written = <<>>
                /\ s2c'[c] = s2c[c]
                /\ worker'[c] \in {"failed", "panicked"}
                /\ \A d \in Conns \ {c} : worker'[d] = worker[d] /\ c2s'[d] = c2s[d]
          /\ (ReadFailed(c) /\ worker[c] # "running") =>
                /\ worker'[c] = worker[c]
                /\ turn'[c] = turn[c]
                /\ IsSuffix(s2c'[c], s2c[c])
                /\ IsPrefix(c2s[c], c2s'[c])]_vars

\* C6: the read of a worker has failed, and the worker of the other connection
\* has answered a request and is in its loop
C6_Witness ==
    \E c \in Conns : \E d \in Conns \ {c} :
        /\ ReadFailed(c) /\ worker[c] \in {"failed", "panicked"}
        /\ worker[d] = "running"
        /\ turn[d].response # <<>>

(***************************************************************************)
(* Properties of the codec.                                                *)
(***************************************************************************)
FrameDecoded == cmsg.src = "message" /\ decoded # NoResult

\* C7: for every client and server message, deserializing the type byte,
\* length field and payload of as_bytes() with the deserializer of the same
\* role yields a message equal to the original.
C7_RoundTrip == FrameDecoded => decoded = Ok(cmsg.msg)

\* the bytes C8 prescribes for a row: per value the type tag, the length as
\* 4 little-endian bytes, and the value with an Integer as 4 big-endian bytes
RECURSIVE C8_RowLayout(_)
C8_RowLayout(values) ==
    IF values = <<>> THEN <<>>
    ELSE LET d == Head(values) IN
         (CASE d.t = "Null" -> <<110 (* 'n' *), 0, 0, 0, 0>>
            [] d.t = "Integer" ->
                 <<105 (* 'i' *), 4, 0, 0, 0,
                   (d.i \div 16777216) % 256, (d.i \div 65536) % 256,
                   (d.i \div 256) % 256, d.i % 256>>
            [] d.t = "Varchar" -> <<118 (* 'v' *), Len(d.s), 0, 0, 0>> \o d.s)
         \o C8_RowLayout(Tail(values))

IsDataRow == cmsg.src = "message" /\ cmsg.role = "server" /\ cmsg.msg.kind = "DataRow"

\* C8: every row of Null, Integer(i) (any signed 32-bit i) and Varchar(s)
\* values round-trips through a DATA_ROW frame, the values in the same order,
\* each value carried as its type tag, its 4-byte little-endian length and
\* its bytes, an Integer as 4 big-endian bytes.
C8_DataRowRoundTrip ==
    IsDataRow =>
        /\ SubSeqFrom(wire, 6) = C8_RowLayout(cmsg.msg.columns)
        /\ decoded # NoResult => decoded = Ok(cmsg.msg)

\* C8 witness: a row of a negative Integer and an empty Varchar was decoded
C8_Witness ==
    /\ IsDataRow
    /\ cmsg.msg.columns = <<MInteger(-83728), MVarchar(<<>>)>>
    /\ decoded = Ok(cmsg.msg)

\* C9: every serialized message is one frame [type][length][payload]: the
\* length field of as_bytes() is the number of bytes that follow it, so that
\* nothing follows the payload.
C9_FrameLength ==
    cmsg.src = "message" =>
        /\ Len(wire) >= 5
        /\ u32_from_le_bytes(SubSeq(wire, 2, 5)) = Len(wire) - 5

\* C9 witness: the frame of a text of more bytes than characters
C9_Witness ==
    /\ cmsg.src = "message"
    /\ cmsg.msg \in {CQuery(<<104, 195, 169>>), SError(<<104, 195, 169>>)}
    /\ Len(wire) = 8

\* C10: the role-specific deserializers return a typed protocol error and
\* never crash, whatever the type byte, declared length and payload.
C10_NeverCrash == decoded.res # "Panic"


\* bytes whose declared length matches were handed to the deserializer of a role
RawDecoded(role) == cmsg.src = "raw" /\ cmsg.role = role /\ cmsg.length = Len(cmsg.bytes)

UnknownType == decoded = Err("UnknownMessageType")

\* C11: decoding is directed by role: of bytes whose declared length matches,
\* deserialize_client_message rejects every type byte but 'a', 'q', 'd' and
\* deserialize_server_message every type byte but 'b', 'x', 'e', 'r', 'd', 'i'
\* as an unknown message type, and each accepts its own type bytes
C11_RoleDirected ==
    /\ RawDecoded("client") =>
          (UnknownType <=> cmsg.message_type \notin {97 (* 'a' *), 113 (* 'q' *), 100 (* 'd' *)})
    /\ RawDecoded("server") =>
          (UnknownType <=>
              cmsg.message_type \notin {98 (* 'b' *), 120 (* 'x' *), 101 (* 'e' *), 114 (* 'r' *), 100 (* 'd' *), 105 (* 'i' *)})

\* C11: the server-only READY byte, with a matching length, was handed to the
\* deserializer of client messages and rejected
C11_Witness ==
    /\ RawDecoded("client") /\ cmsg.message_type = 120 (* 'x' *) /\ cmsg.bytes # <<>>
    /\ UnknownType


(***************************************************************************)
(* The catalog on its own: InMemoryManager::new() followed by calls of     *)
(* create_table and insert, as the tests of manager.rs make them.  A call  *)
(* that returns Err has returned before it changed the manager.            *)
(***************************************************************************)
EngineSchemas ==
    { <<>>,
      <<Column((* "id" *) <<105, 100>>, "Integer")>>,
      <<Column((* "id" *) <<105, 100>>, "Integer"), Column((* "name" *) <<110, 97, 109, 101>>, "Varchar")>> }

EngineRows ==
    { <<>>,
      <<MInteger(1)>>, <<MVarchar((* "hello" *) <<104, 101, 108, 108, 111>>)>>, <<MNull>>,
      <<MInteger(1), MVarchar((* "hello" *) <<104, 101, 108, 108, 111>>)>>, <<MInteger(1), MInteger(1)>>,
      <<MVarchar((* "hello" *) <<104, 101, 108, 108, 111>>), MInteger(1)>>, <<MInteger(1), MNull>> }

\* what a call of the manager leaves behind
Called(kind, name, arg, result) ==
    /\ db' = IF result.res = "Ok" THEN result.val ELSE db
    /\ op' = [n |-> op.n + 1, kind |-> kind, name |-> name, arg |-> arg,
              res |-> result.res,
              msg |-> IF result.res = "Ok" THEN <<>> ELSE result.msg,
              before |-> db]

CreateTable ==
    /\ op.n < MaxOps
    /\ \E name \in TableNames, columns \in EngineSchemas :
         Called("create_table", name, columns, create_table(db, name, columns))
    /\ UNCHANGED <<inserted, connVars, codecVars, lockVars>>

Insert ==
    /\ op.n < MaxOps
    /\ \E table_name \in TableNames, colums \in EngineRows :
         LET done(result) ==
                 /\ Called("insert", table_name, colums, result)
                 /\ inserted' = IF result.res = "Ok"
                                THEN [inserted EXCEPT ![table_name] = Append(@, colums)]
                                ELSE inserted
         IN done(insert(db, table_name, colums))
    /\ UNCHANGED <<connVars, codecVars, lockVars>>

InitEngine ==
    /\ db = new_manager
    /\ op = NoOp
    /\ inserted = [name \in TableNames |-> <<>>]
    /\ c2s = [c \in Conns |-> <<>>]
    /\ closed = [c \in Conns |-> FALSE]
    /\ s2c = [c \in Conns |-> <<>>]
    /\ worker = [c \in Conns |-> "running"]
    /\ turn = [c \in Conns |-> NoTurn]
    /\ client = [c \in Conns |-> [pc |-> "idle", got |-> <<>>]]
    /\ nsent = 0
    /\ cmsg = [src |-> "none"]
    /\ wire = <<>>
    /\ decoded = NoResult
    /\ rwlock = RwLock_new(new_manager)
    /\ main = [pc |-> "new", step |-> 0, half |-> FALSE, thread_id |-> 1]
    /\ phase = [c \in Conns |-> NoPhase]

EngineNext == CreateTable \/ Insert

SpecEngine == InitEngine /\ [][EngineNext]_vars


(***************************************************************************)
(* Properties of the catalog.                                              *)
(***************************************************************************)
\* the rows fetch returns for a table of the catalog
Fetched(database, name) == fetch(database, name).val

\* C12: after any sequence of catalog operations, fetch(T) returns exactly the
\* rows of the inserts into T that succeeded, in insertion order; a table that
\* was never created has had no successful insert; an operation keeps every
\* stored row where it is, and a failed insert adds nothing.
C12_AppendOnly ==
    /\ \A name \in TableNames :
         IF has_table(db, name)
         THEN fetch(db, name) = Ok(inserted[name])
         ELSE inserted[name] = <<>> /\ fetch(db, name).res = "Err"
    /\ op.kind \in {"create_table", "insert"} =>
         \A name \in TableNames :
            has_table(op.before, name) =>
               /\ has_table(db, name)
               /\ IsPrefix(Fetched(op.before, name), Fetched(db, name))
               /\ (op.kind = "insert" /\ op.res = "Err" =>
                      Fetched(db, name) = Fetched(op.before, name))

\* two different rows were inserted into one table one after the other and a
\* failed insert followed
C12_Witness ==
    \E name \in TableNames :
       /\ has_table(db, name)
       /\ Len(inserted[name]) = 2
       /\ inserted[name][1] # inserted[name][2]
       /\ op.kind = "insert" /\ op.name = name /\ op.res = "Err"
       /\ fetch(db, name) = Ok(inserted[name])


\* the schema a table of the catalog was created with
SchemaOf(database, name) == get_table_meta(database, name).val.schema

\* the row does not fit the table: no such table, fewer or more values than the
\* schema has columns, or a value whose type is not the declared type
RowMismatch(database, name, row) ==
    \/ ~has_table(database, name)
    \/ Len(row) # Len(SchemaOf(database, name))
    \/ \E i \in 1..Len(row) : matcher(row[i]) # SchemaOf(database, name)[i].data_type

\* C13: insert(table, row) fails and leaves the whole catalog unchanged whenever
\* the table does not exist, the row has fewer or more values than the schema
\* has columns, or a value's type differs from the declared type of its column
\* (a Null into an Integer or Varchar column included).
C13_InsertFailure ==
    op.kind = "insert" /\ RowMismatch(op.before, op.name, op.arg) =>
        op.res = "Err" /\ db = op.before


\* every table of the catalog before the call is there after it, with the schema
\* and the rows it had
TablesKept(before, after) ==
    \A name \in TableNames :
       has_table(before, name) =>
          /\ has_table(after, name)
          /\ SchemaOf(after, name) = SchemaOf(before, name)
          /\ Fetched(after, name) = Fetched(before, name)

\* C14: create_table(name, columns) fails with "Table already exists: <name>"
\* when the name is present and fails when the column list is empty, and then
\* the catalog is as it was: nothing is registered, every schema and every row
\* is kept; otherwise the schema is registered with an empty row sequence,
\* fetch(name) returns no rows, and the other tables are kept.
C14_CreateTable ==
    op.kind = "create_table" =>
        IF has_table(op.before, op.name)
        THEN /\ op.res = "Err"
             /\ op.msg = (* "Table already exists: " *) <<84, 97, 98, 108, 101, 32, 97, 108, 114, 101, 97, 100, 121, 32, 101, 120, 105, 115, 116, 115, 58, 32>> \o op.name
             /\ db = op.before
        ELSE IF op.arg = <<>>
        THEN /\ op.res = "Err"
             /\ db = op.before
             /\ ~has_table(db, op.name)
        ELSE /\ op.res = "Ok"
             /\ has_table(db, op.name)
             /\ SchemaOf(db, op.name) = op.arg
             /\ fetch(db, op.name) = Ok(<<>>)
             /\ Len(db.keys) = Len(op.before.keys) + 1
             /\ TablesKept(op.before, db)

\* create_table was called with other columns for a table that holds a row
C14_Witness ==
    /\ op.kind = "create_table"
    /\ has_table(op.before, op.name)
    /\ Fetched(op.before, op.name) # <<>>
    /\ SchemaOf(op.before, op.name) # op.arg
    /\ op.res = "Err"
    /\ TablesKept(op.before, db)


(***************************************************************************)
(* Properties of the statements executed for a client.                     *)
(***************************************************************************)
\* the clause of the QUERY the worker of c has answered in its latest turn
ClauseOf(c) == parsed(turn[c].request.text).val

\* the latest turn of the worker of c has executed a SELECT over a table of the
\* catalog
SelectTurn(c) ==
    /\ QueryTurn(c)
    /\ parsed(turn[c].request.text).res = "Ok"
    /\ ClauseOf(c).clause = "Select"
    /\ ClauseOf(c).from # <<>>
    /\ has_table(db, ClauseOf(c).from[1])

\* the projection evaluated on a stored row of the table
Projected(projection, schema, row) ==
    [j \in 1..Len(projection) |-> eval(projection[j], schema, row)]

\* every expression of the projection has a value on every stored row
Evaluates(projection, schema, rows) ==
    \A i \in 1..Len(rows) : \A j \in 1..Len(projection) :
        Projected(projection, schema, rows[i])[j].res = "Ok"

\* C15: for a SELECT over a table holding k stored rows the worker sends one
\* DATA_DESCRIPTION with one column per expression of the projection, then k
\* DATA_ROW messages, the i-th holding the projection evaluated on the i-th
\* stored row, one value per expression, then READY.
C15_SelectRows ==
    \A c \in Conns :
        SelectTurn(c) =>
            LET projection == ClauseOf(c).projection
                schema == SchemaOf(db, ClauseOf(c).from[1])
                rows == Fetched(db, ClauseOf(c).from[1])
                response == turn[c].response
            IN Evaluates(projection, schema, rows) =>
                  /\ Len(response) = Len(rows) + 2
                  /\ response[1].kind = "DataDescription"
                  /\ Len(response[1].columns) = Len(projection)
                  /\ \A i \in 1..Len(rows) :
                        response[i + 1] =
                            SDataRow([j \in 1..Len(projection) |->
                                         Projected(projection, schema, rows[i])[j].val])
                  /\ response[Len(response)] = SReady


\* the latest turn of the worker of c has executed SHOW TABLES
ShowTablesTurn(c) ==
    /\ QueryTurn(c)
    /\ parsed(turn[c].request.text).res = "Ok"
    /\ ClauseOf(c).clause = "ShowTables"

\* the DATA_ROW of SHOW TABLES for a table
TableRow(name) == SDataRow(<<MVarchar(name)>>)

\* C16: SHOW TABLES is answered by a DATA_DESCRIPTION with the single column
\* "table" of type Varchar, then one DATA_ROW holding Varchar(name) for each
\* table of the catalog, every table once and no other row, then READY.
C16_ShowTables ==
    \A c \in Conns :
        ShowTablesTurn(c) =>
            LET response == turn[c].response
                tables == db.keys
            IN /\ Len(response) = Len(tables) + 2
               /\ response[1] = SDataDescription(<<Column((* "table" *) <<116, 97, 98, 108, 101>>, "Varchar")>>)
               /\ \A i \in 1..Len(tables) :
                     \E j \in 2..(Len(response) - 1) : response[j] = TableRow(tables[i])
               /\ \A j \in 2..(Len(response) - 1) :
                     \E i \in 1..Len(tables) : response[j] = TableRow(tables[i])
               /\ response[Len(response)] = SReady

\* SHOW TABLES was answered with the three tables of the bootstrapped catalog,
\* in another order than the one they were created in
C16_Witness ==
    \E c \in Conns :
        /\ ShowTablesTurn(c)
        /\ Len(turn[c].response) = 5
        /\ turn[c].response[2] = TableRow((* "MODES" *) <<77, 79, 68, 69, 83>>)
        /\ turn[c].response[3] = TableRow((* "PEOPLE" *) <<80, 69, 79, 80, 76, 69>>)
        /\ turn[c].response[4] = TableRow((* "DEPARTMENTS" *) <<68, 69, 80, 65, 82, 84, 77, 69, 78, 84, 83>>)


\* two characters that are the same letter in either case, or the same character
SameLetter(a, b) ==
    \/ a = b
    \/ a >= 97 (* 'a' *) /\ a <= 122 (* 'z' *) /\ b = a - 32
    \/ b >= 97 (* 'a' *) /\ b <= 122 (* 'z' *) /\ a = b - 32

\* two names that differ in the case of their letters at most
EqualsIgnoreCase(a, b) ==
    Len(a) = Len(b) /\ \A i \in 1..Len(a) : SameLetter(a[i], b[i])

\* the column names the statements of the clients are written with
WrittenNames == {(* "id_mode" *) <<105, 100, 95, 109, 111, 100, 101>>, (* "ID_MODE" *) <<73, 68, 95, 77, 79, 68, 69>>, (* "Id_Mode" *) <<73, 100, 95, 77, 111, 100, 101>>, (* "bogus" *) <<98, 111, 103, 117, 115>>}

\* the statement that selects one column of a table
SelectOf(written, table) == (* "select " *) <<115, 101, 108, 101, 99, 116, 32>> \o written \o (* " from " *) <<32, 102, 114, 111, 109, 32>> \o table

\* the columns of a schema a written name matches in some letter case
Matching(schema, written) ==
    {k \in 1..Len(schema) : EqualsIgnoreCase(schema[k].name, written)}

\* what the reference of a statement evaluates to on a stored row: the value of
\* the column its written name matches in some letter case, or the error
\* "No such column" when it matches none
Resolved(reference, written, schema, row) ==
    IF Matching(schema, written) = {}
    THEN eval(reference, schema, row) = DataErr((* "No such column " *) <<78, 111, 32, 115, 117, 99, 104, 32, 99, 111, 108, 117, 109, 110, 32>> \o reference.name)
    ELSE \E k \in Matching(schema, written) : eval(reference, schema, row) = Ok(row[k])

\* C17: column references resolve case-insensitively from the SQL text to the
\* catalog: in a statement `select <name> from T` the reference parsed from
\* <name> evaluates, on every stored row of T, to the value of the column
\* whose stored name equals <name> in some letter case (id, ID and Id all
\* resolve to the column stored as id); only a name that matches no column in
\* any letter case evaluates to the error "No such column".
C17_CaseInsensitive ==
    \A c \in Conns : \A written \in WrittenNames : \A t \in 1..Len(db.keys) :
        QueryTurn(c) /\ turn[c].request.text = SelectOf(written, db.keys[t]) =>
            /\ parsed(turn[c].request.text).res = "Ok"
            /\ ClauseOf(c).clause = "Select"
            /\ Len(ClauseOf(c).projection) = 1
            /\ ClauseOf(c).projection[1].e = "Reference"
            /\ \A i \in 1..Len(db.data[t]) :
                  Resolved(ClauseOf(c).projection[1], written, db.tables[t], db.data[t][i])

\* `select Id_Mode from MODES` was answered: the reference resolved to the
\* column stored as id_mode and the worker sent a response
C17_Witness ==
    \E c \in Conns :
        /\ QueryTurn(c)
        /\ turn[c].request.text = SelectOf((* "Id_Mode" *) <<73, 100, 95, 77, 111, 100, 101>>, (* "MODES" *) <<77, 79, 68, 69, 83>>)
        /\ eval(ClauseOf(c).projection[1], SchemaOf(db, (* "MODES" *) <<77, 79, 68, 69, 83>>),
                Fetched(db, (* "MODES" *) <<77, 79, 68, 69, 83>>)[2]) = Ok(MInteger(2))
        /\ turn[c].response # <<>>


\* C18: the result column a column reference contributes to the
\* DATA_DESCRIPTION carries the name of the base column as the schema of the
\* table stores it, letter case preserved, and its declared type: the answer
\* to `select <name> from T`, <name> matching a column of T in some letter
\* case, starts with a DATA_DESCRIPTION whose first column is that column of
\* the schema.
C18_DescribedColumn ==
    \A c \in Conns : \A written \in WrittenNames : \A t \in 1..Len(db.keys) :
        /\ QueryTurn(c)
        /\ turn[c].request.text = SelectOf(written, db.keys[t])
        /\ Matching(db.tables[t], written) # {}
        => /\ turn[c].response # <<>>
           /\ turn[c].response[1].kind = "DataDescription"
           /\ turn[c].response[1].columns # <<>>
           /\ \E k \in Matching(db.tables[t], written) :
                 turn[c].response[1].columns[1] = db.tables[t][k]


(***************************************************************************)
(* SqlLexer of sql/lexer.rs: the lexer that folds to lower case.  A token  *)
(* is its type (TokenTypes) and the place it was found at (SourceRef).     *)
(* The lexer walks source.chars(): its text is the sequence of the code    *)
(* points of its characters, which for 7-bit ASCII are the bytes.          *)
(***************************************************************************)
SourceRef(column, line) == [column |-> column, line |-> line]
Token(token_type, source_ref) == [token_type |-> token_type, source_ref |-> source_ref]

SomeToken(token) == [res |-> "Some", token |-> token]
SqlLexingError(msg, location) == [res |-> "Err", msg |-> msg, location |-> location]

\* LexingErrors
StringNotTerminated == [kind |-> "StringNotTerminated"]
IllegalCharacter(c) == [kind |-> "IllegalCharacter", char |-> c]

\* char::is_whitespace: the characters of the Unicode property White_Space
char_is_whitespace(c) ==
    \/ c >= 9 /\ c <= 13
    \/ c \in {32, 133, 160, 5760, 8232, 8233, 8239, 8287, 12288}
    \/ c >= 8192 /\ c <= 8202

\* char::to_ascii_lowercase
to_ascii_lowercase(c) == IF c >= 65 (* 'A' *) /\ c <= 90 (* 'Z' *) THEN c + 32 ELSE c

\* char::is_ascii
is_ascii(c) == c <= 127

\* LexBuffer::new
LexBuffer_new ==
    [buffer |-> <<>>, mode |-> "Normal", current_line |-> 1, current_column |-> 1,
     token_column_marker |-> 1]

\* LexBuffer::current_source_marker
current_source_marker(self) == SourceRef(self.token_column_marker, self.current_line)

\* a create_token_and_reset that does not clear the buffer
create_token_keeping_buffer(self, token_type) ==
    Pushed([self EXCEPT !.token_column_marker = self.current_column],
           SomeToken(Token(token_type, current_source_marker(self))))

\* LexBuffer::create_token_and_reset
create_token_and_reset(self, token_type) ==
    Pushed([self EXCEPT !.buffer = <<>>, !.token_column_marker = self.current_column],
           SomeToken(Token(token_type, current_source_marker(self))))

\* LexBuffer::is_delimiting
LexBuffer_is_delimiting(character) ==
    \/ char_is_whitespace(character)
    \/ character \in {59 (* ';' *), 43 (* '+' *), 44 (* ',' *), 46 (* '.' *), 40 (* '(' *), 41 (* ')' *), 61 (* '=' *), 60 (* '<' *), 62 (* '>' *)}

\* a makes_continuity_token that knows `<=` only
continuity_of_less_than(current, peek_value) ==
    IF peek_value = 61 (* '=' *) THEN current = 60 (* '<' *) ELSE FALSE

\* LexBuffer::makes_continuity_token
makes_continuity_token(current, peek_value) ==
    IF peek_value = 61 (* '=' *) THEN current = 60 (* '<' *) \/ current = 62 (* '>' *) ELSE FALSE

\* the token type LexBuffer::pop_token gives a buffer
popped_type(buffer) ==
    CASE buffer = (* "select" *) <<115, 101, 108, 101, 99, 116>> -> Unit("SELECT")
      [] buffer = (* "update" *) <<117, 112, 100, 97, 116, 101>> -> Unit("UPDATE")
      [] buffer = (* "insert" *) <<105, 110, 115, 101, 114, 116>> -> Unit("INSERT")
      [] buffer = (* "delete" *) <<100, 101, 108, 101, 116, 101>> -> Unit("DELETE")
      [] buffer = (* "where" *) <<119, 104, 101, 114, 101>> -> Unit("WHERE")
      [] buffer = (* "from" *) <<102, 114, 111, 109>> -> Unit("FROM")
      [] buffer = (* "set" *) <<115, 101, 116>> -> Unit("SET")
      [] buffer = (* "," *) <<44>> -> Unit("COMMA")
      [] buffer = (* "." *) <<46>> -> Unit("DOT")
      [] buffer = (* "(" *) <<40>> -> Unit("LPARENS")
      [] buffer = (* ")" *) <<41>> -> Unit("RPARENS")
      [] buffer = (* "=" *) <<61>> -> Unit("EQ")
      [] buffer = (* "<" *) <<60>> -> Unit("LT")
      [] buffer = (* ">" *) <<62>> -> Unit("GT")
      [] buffer = (* "<=" *) <<60, 61>> -> Unit("LTE")
      [] buffer = (* ">=" *) <<62, 61>> -> Unit("GTE")
      [] buffer = (* "+" *) <<43>> -> Unit("PLUS")
      [] buffer = (* ";" *) <<59>> -> Unit("TERMINATE")
      [] OTHER -> Token_IDENTIFIER(buffer)

\* LexBuffer::pop_token
LexBuffer_pop_token(self) == create_token_and_reset(self, popped_type(self.buffer))

\* LexBuffer::push_char, after the character was put into the buffer
after_push(self, current_char, peek_value) ==
    IF self.mode = "ForcePop" THEN LexBuffer_pop_token([self EXCEPT !.mode = "Normal"])
    ELSE IF peek_value # NoChar
    THEN IF self.mode = "String" THEN Pushed(self, NoToken)
         ELSE IF makes_continuity_token(current_char, peek_value)
              THEN Pushed([self EXCEPT !.mode = "ForcePop"], NoToken)
         ELSE IF LexBuffer_is_delimiting(current_char) THEN LexBuffer_pop_token(self)
         ELSE IF LexBuffer_is_delimiting(peek_value) THEN LexBuffer_pop_token(self)
         ELSE Pushed(self, NoToken)
    ELSE IF self.mode = "String"
         THEN Pushed(self, SqlLexingError(StringNotTerminated, current_source_marker(self)))
         ELSE LexBuffer_pop_token(self)

\* LexBuffer::push_char, after proceed_counters
counted_push(self, current_char, peek_value) ==
    IF char_is_whitespace(current_char) /\ self.mode # "String"
    THEN Pushed([self EXCEPT !.token_column_marker = @ + 1], NoToken)
    ELSE IF current_char = 39 (* ''' *)
    THEN IF self.mode = "String"
         THEN create_token_and_reset([self EXCEPT !.mode = "Normal"], Token_STRING(self.buffer))
         ELSE Pushed([self EXCEPT !.mode = "String"], NoToken)
    ELSE IF self.mode = "String"
    THEN after_push([self EXCEPT !.buffer = Append(@, current_char)], current_char, peek_value)
    ELSE IF ~is_ascii(current_char)
    THEN Pushed(self, SqlLexingError(IllegalCharacter(current_char),
                                  SourceRef(self.current_column, self.current_line)))
    ELSE after_push([self EXCEPT !.buffer = Append(@, to_ascii_lowercase(current_char))],
                    current_char, peek_value)

\* LexBuffer::push_char
LexBuffer_push_char(self, current_char, peek_value) ==
    counted_push([self EXCEPT !.current_column = @ + 1], current_char, peek_value)

\* SqlLexer::new
SqlLexer_new(source) == [buffer |-> LexBuffer_new, source |-> source]

\* Peekable::peek of the characters left after the current one
peek_char(source) == IF Len(source) > 1 THEN source[2] ELSE NoChar

RECURSIVE SqlLexer_next(_)
\* SqlLexer::next: characters are pushed until a token or an error comes out,
\* or the source has ended
SqlLexer_next(self) ==
    IF self.source = <<>> THEN [lexer |-> self, out |-> NoToken]
    ELSE LET after(step) ==
                 IF step.out.res = "None"
                 THEN SqlLexer_next([buffer |-> step.self, source |-> Tail(self.source)])
                 ELSE [lexer |-> [buffer |-> step.self, source |-> Tail(self.source)],
                       out |-> step.out]
         IN after(LexBuffer_push_char(self.buffer, Head(self.source), peek_char(self.source)))

RECURSIVE lexes_to(_, _)
\* the loop of lexes_to: next is called until it returns no token or an error;
\* the token types it returned and how it ended
lexes_to(lexer, token_types) ==
    LET after(step) ==
            IF step.out.res = "Some"
            THEN lexes_to(step.lexer, Append(token_types, step.out.token.token_type))
            ELSE [token_types |-> token_types, out |-> step.out]
    IN after(SqlLexer_next(lexer))


(***************************************************************************)
(* The SqlLexer on its own: SqlLexer::new on a text and calls of next, as  *)
(* lexes_to of the tests of sql/lexer.rs makes them.                       *)
(***************************************************************************)
\* the words the statements of the tests are written with, in lower case
LexWords ==
    {(* "select" *) <<115, 101, 108, 101, 99, 116>>, (* "update" *) <<117, 112, 100, 97, 116, 101>>, (* "insert" *) <<105, 110, 115, 101, 114, 116>>, (* "delete" *) <<100, 101, 108, 101, 116, 101>>, (* "show" *) <<115, 104, 111, 119>>, (* "tables" *) <<116, 97, 98, 108, 101, 115>>,
     (* "where" *) <<119, 104, 101, 114, 101>>, (* "from" *) <<102, 114, 111, 109>>, (* "set" *) <<115, 101, 116>>, (* "foo" *) <<102, 111, 111>>, (* "now" *) <<110, 111, 119>>, (* "a" *) <<97>>}

\* a word with its first letter in upper case
capitalized(word) == [i \in 1..Len(word) |-> IF i = 1 THEN to_uppercase_char(word[i]) ELSE word[i]]

\* a word with every second letter in upper case
alternating(word) ==
    [i \in 1..Len(word) |-> IF i % 2 = 0 THEN to_uppercase_char(word[i]) ELSE word[i]]

\* the pieces texts are put together from
LexPieces ==
    {(* "Select" *) <<83, 101, 108, 101, 99, 116>>, (* "a" *) <<97>>, (* "Foo" *) <<70, 111, 111>>, (* "'" *) <<39>>, (* "'Ab'" *) <<39, 65, 98, 39>>, (* "," *) <<44>>, (* "<=" *) <<60, 61>>, (* ";" *) <<59>>, (* " " *) <<32>>,
     <<228>>,     \* a with diaeresis, U+00E4
     <<160>>}     \* the no-break space, U+00A0

RECURSIVE LexPieced(_)
\* the texts put together from n pieces
LexPieced(n) ==
    IF n = 0 THEN {<<>>}
    ELSE {piece \o text : piece \in LexPieces, text \in LexPieced(n - 1)}

\* the characters the texts with comparisons are written with
CompareChars == {60 (* '<' *), 62 (* '>' *), 61 (* '=' *), 97 (* 'a' *), 32 (* ' ' *), 39 (* ''' *)}

\* the texts with comparisons, of one character more than the pieced texts have pieces
LexCompared == SeqsUpTo(CompareChars, MaxWords + 1)

\* the characters the texts with numbers are written with
NumberChars == {49 (* '1' *), 48 (* '0' *), 97 (* 'a' *), 45 (* '-' *), 32 (* ' ' *), 59 (* ';' *)}

\* the texts with numbers
LexNumbered == SeqsUpTo(NumberChars, MaxWords + 1)

\* the texts handed to the SqlLexer
LexInputs ==
    UNION {{word, to_uppercase(word), capitalized(word), alternating(word)} : word \in LexWords}
        \cup UNION {LexPieced(n) : n \in 0..MaxWords}
        \cup LexCompared
        \cup LexNumbered
        \cup {(* "SELECT a, b FROM foo WHERE a = b;" *) <<83, 69, 76, 69, 67, 84, 32, 97, 44, 32, 98, 32, 70, 82, 79, 77, 32, 102, 111, 111, 32, 87, 72, 69, 82, 69, 32, 97, 32, 61, 32, 98, 59>>, (* "select A, B from FOO where A = B;" *) <<115, 101, 108, 101, 99, 116, 32, 65, 44, 32, 66, 32, 102, 114, 111, 109, 32, 70, 79, 79, 32, 119, 104, 101, 114, 101, 32, 65, 32, 61, 32, 66, 59>>,
              (* "update a set b = NOW();" *) <<117, 112, 100, 97, 116, 101, 32, 97, 32, 115, 101, 116, 32, 98, 32, 61, 32, 78, 79, 87, 40, 41, 59>>, (* "'a" *) <<39, 97>>, (* "'HELLO world'" *) <<39, 72, 69, 76, 76, 79, 32, 119, 111, 114, 108, 100, 39>>, (* "a 'b" *) <<97, 32, 39, 98>>,
              <<128512>>,                                  \* an emoji, U+1F600
              <<39 (* ''' *), 65 (* 'A' *), 9, 98 (* 'b' *), 128512, 12288, 39 (* ''' *)>>,  \* a string with a tab
              <<97 (* 'a' *), 12288, 98 (* 'b' *)>>}                  \* the ideographic space, U+3000

\* SqlLexer::new: a lexer owns its text and its buffer, so one lexer is followed
SqlLexerNew ==
    /\ op.kind = "none"
    /\ \E source \in LexInputs :
          op' = [n |-> op.n, kind |-> "lex", source |-> source,
                 lexer |-> SqlLexer_new(source), tokens |-> <<>>, out |-> [res |-> "New"]]
    /\ UNCHANGED <<inserted, serverVars, codecVars, lockVars>>

\* SqlLexer::next, called while the lexer has returned tokens
SqlLexerNext ==
    /\ op.kind = "lex"
    /\ op.out.res \in {"New", "Some"}
    /\ LET done(step) ==
               op' = [op EXCEPT !.lexer = step.lexer, !.out = step.out,
                                !.tokens = IF step.out.res = "Some"
                                           THEN Append(@, step.out.token) ELSE @]
       IN done(SqlLexer_next(op.lexer))
    /\ UNCHANGED <<inserted, serverVars, codecVars, lockVars>>

LexerNext == SqlLexerNew \/ SqlLexerNext

SpecLexer == InitEngine /\ [][LexerNext]_vars


(***************************************************************************)
(* Properties of the SqlLexer.                                             *)
(***************************************************************************)
\* the token types the lexer has returned so far
TokenTypesOf(tokens) == [i \in 1..Len(tokens) |-> tokens[i].token_type]

\* the lexer has come to the end of its text without an error
LexedAll == op.kind = "lex" /\ op.out.res = "None"

RECURSIVE fold_outside_strings(_, _, _)
\* the text with the letters outside strings put into lower case (upper = FALSE)
\* or upper case (upper = TRUE); a quote opens or closes a string
fold_outside_strings(text, upper, in_string) ==
    IF text = <<>> THEN <<>>
    ELSE IF Head(text) = 39 (* ''' *)
    THEN <<Head(text)>> \o fold_outside_strings(Tail(text), upper, ~in_string)
    ELSE <<IF in_string THEN Head(text)
           ELSE IF upper THEN to_uppercase_char(Head(text))
           ELSE to_ascii_lowercase(Head(text))>>
            \o fold_outside_strings(Tail(text), upper, in_string)

\* what lexes_to sees of a text: the token types and how the lexer ended
Lexed(text) == lexes_to(SqlLexer_new(text), <<>>)

\* two texts that differ in the letter case outside strings at most give the
\* same tokens: the text lexes as its folding to lower and to upper case does
SameInAnyCase ==
    LexedAll =>
        /\ Lexed(fold_outside_strings(op.source, FALSE, FALSE)).token_types
               = TokenTypesOf(op.tokens)
        /\ Lexed(fold_outside_strings(op.source, TRUE, FALSE)).token_types
               = TokenTypesOf(op.tokens)

\* a text of letters only
IsWord(text) ==
    text # <<>> /\ \A i \in 1..Len(text) : to_ascii_lowercase(text[i]) \in 97 (* 'a' *)..122 (* 'z' *)

\* the keyword token of a reserved word
KeywordOf(word) ==
    CASE word = (* "select" *) <<115, 101, 108, 101, 99, 116>> -> Unit("SELECT")
      [] word = (* "update" *) <<117, 112, 100, 97, 116, 101>> -> Unit("UPDATE")
      [] word = (* "insert" *) <<105, 110, 115, 101, 114, 116>> -> Unit("INSERT")
      [] word = (* "delete" *) <<100, 101, 108, 101, 116, 101>> -> Unit("DELETE")
      [] word = (* "show" *) <<115, 104, 111, 119>> -> Unit("SHOW")
      [] word = (* "tables" *) <<116, 97, 98, 108, 101, 115>> -> Unit("TABLES")
      [] word = (* "where" *) <<119, 104, 101, 114, 101>> -> Unit("WHERE")
      [] word = (* "from" *) <<102, 114, 111, 109>> -> Unit("FROM")
      [] word = (* "set" *) <<115, 101, 116>> -> Unit("SET")

\* a word lexes to its keyword when it is one of the reserved words in some
\* letter case, and to IDENTIFIER of its lower-cased text otherwise
WordsLexTo(reserved) ==
    LexedAll /\ IsWord(op.source) =>
        LET lower == fold_outside_strings(op.source, FALSE, FALSE) IN
        TokenTypesOf(op.tokens) =
            <<IF lower \in reserved THEN KeywordOf(lower) ELSE Token_IDENTIFIER(lower)>>

\* the statement of the example and its tokens
ExampleLexed ==
    LexedAll /\ op.source = (* "SELECT a, b FROM foo WHERE a = b;" *) <<83, 69, 76, 69, 67, 84, 32, 97, 44, 32, 98, 32, 70, 82, 79, 77, 32, 102, 111, 111, 32, 87, 72, 69, 82, 69, 32, 97, 32, 61, 32, 98, 59>> =>
        TokenTypesOf(op.tokens) =
            <<Unit("SELECT"), Token_IDENTIFIER((* "a" *) <<97>>), Unit("COMMA"), Token_IDENTIFIER((* "b" *) <<98>>),
              Unit("FROM"), Token_IDENTIFIER((* "foo" *) <<102, 111, 111>>), Unit("WHERE"), Token_IDENTIFIER((* "a" *) <<97>>),
              Unit("EQ"), Token_IDENTIFIER((* "b" *) <<98>>), Unit("TERMINATE")>>

\* C19: outside strings the lexer is case-insensitive: each reserved word
\* (SELECT, UPDATE, INSERT, DELETE, SHOW, TABLES, WHERE, FROM, SET) is
\* recognised in any letter case as its keyword token and every other word
\* becomes IDENTIFIER of its lower-cased text, so two inputs that differ only
\* in letter case outside strings give the same token sequence;
\* `SELECT a, b FROM foo WHERE a = b;` lexes to SELECT, IDENTIFIER a, COMMA,
\* IDENTIFIER b, FROM, IDENTIFIER foo, WHERE, IDENTIFIER a, EQ, IDENTIFIER b,
\* TERMINATE.
C19_CaseInsensitiveLexer ==
    /\ WordsLexTo({(* "select" *) <<115, 101, 108, 101, 99, 116>>, (* "update" *) <<117, 112, 100, 97, 116, 101>>, (* "insert" *) <<105, 110, 115, 101, 114, 116>>, (* "delete" *) <<100, 101, 108, 101, 116, 101>>, (* "show" *) <<115, 104, 111, 119>>, (* "tables" *) <<116, 97, 98, 108, 101, 115>>,
                   (* "where" *) <<119, 104, 101, 114, 101>>, (* "from" *) <<102, 114, 111, 109>>, (* "set" *) <<115, 101, 116>>})
    /\ SameInAnyCase
    /\ ExampleLexed

RECURSIVE outside_strings(_, _)
\* the characters of a text that are outside strings, in order; a quote opens or
\* closes a string
outside_strings(text, in_string) ==
    IF text = <<>> THEN <<>>
    ELSE IF Head(text) = 39 (* ''' *) THEN outside_strings(Tail(text), ~in_string)
    ELSE (IF in_string THEN <<>> ELSE <<Head(text)>>) \o outside_strings(Tail(text), in_string)

RECURSIVE closed_strings(_, _, _)
\* what is between the quotes of the strings of a text that are closed, in order
closed_strings(text, in_string, content) ==
    IF text = <<>> THEN <<>>
    ELSE IF Head(text) = 39 (* ''' *)
    THEN (IF in_string THEN <<content>> ELSE <<>>) \o closed_strings(Tail(text), ~in_string, <<>>)
    ELSE closed_strings(Tail(text), in_string, IF in_string THEN Append(content, Head(text)) ELSE content)

\* the characters outside strings that are not of 7-bit ASCII
IllegalOutside(text) == SelectSeq(outside_strings(text, FALSE), LAMBDA c : c > 127)

\* the number of quotes in a text
RECURSIVE quotes(_)
quotes(text) ==
    IF text = <<>> THEN 0
    ELSE (IF Head(text) = 39 (* ''' *) THEN 1 ELSE 0) + quotes(Tail(text))

\* a quote opens a string that no later quote closes: quotes open and close
\* strings in turn, so the text holds an odd number of them
Unterminated(text) == quotes(text) % 2 = 1

\* C20: every input in which a quote opens a string that no later quote closes
\* fails with StringNotTerminated, also when the opening quote is the last
\* character of the input or follows other tokens; lexing such an input never
\* ends successfully.  The texts are those the lexer does not refuse for a
\* character outside strings.
C20_StringNotTerminated ==
    op.kind = "lex" /\ Unterminated(op.source) /\ IllegalOutside(op.source) = <<>> =>
        /\ op.out.res # "None"
        /\ op.out.res = "Err" => op.out.msg = StringNotTerminated


\* the lexer has ended: it has come to the end of its text or has failed
LexEnded == op.kind = "lex" /\ op.out.res \in {"None", "Err"}

\* a text with a character outside strings that is not of 7-bit ASCII fails with
\* IllegalCharacter of the first such character
IllegalFails ==
    LexEnded /\ IllegalOutside(op.source) # <<>> =>
        op.out.res = "Err" /\ op.out.msg = IllegalCharacter(Head(IllegalOutside(op.source)))

\* the STRING tokens among the token types
StringsOf(token_types) == SelectSeq(token_types, LAMBDA t : t.t = "STRING")

\* no whitespace in a text
NoWhitespace(text) == \A i \in 1..Len(text) : ~char_is_whitespace(text[i])

\* the STRING tokens returned hold, in order, what is between the quotes of the
\* strings of the text, every character as it is and in its place, after at
\* most characters that are not whitespace; the other tokens hold no whitespace
StringsVerbatim ==
    op.kind = "lex" =>
        LET strings == StringsOf(TokenTypesOf(op.tokens))
            contents == closed_strings(op.source, FALSE, <<>>)
        IN /\ Len(strings) <= Len(contents)
           /\ LexedAll => Len(strings) = Len(contents)
           /\ \A i \in 1..Len(strings) :
                 /\ IsSuffix(contents[i], strings[i].s)
                 /\ NoWhitespace(SubSeq(strings[i].s, 1, Len(strings[i].s) - Len(contents[i])))
           /\ \A i \in 1..Len(op.tokens) :
                 op.tokens[i].token_type.t = "IDENTIFIER" => NoWhitespace(op.tokens[i].token_type.s)

\* C21: a character outside a string that is not of 7-bit ASCII makes the lexer
\* fail with IllegalCharacter(c) carrying that character, whereas inside a
\* string every character (non-ASCII, whitespace, tabs, upper case) is kept as
\* it is and in order in the STRING token; whitespace outside strings is in no
\* token.
C21_IllegalCharacter ==
    /\ IllegalFails
    /\ StringsVerbatim


(***************************************************************************)
(* parse_sql and the evaluation of its projection on their own.  The       *)
(* arithmetic expressions handed to parse_sql are written down with the    *)
(* value they have under the standard reading: a term is a literal, a      *)
(* negated term or an expression in parentheses, an expression is terms    *)
(* joined from left to right by + and -.                                   *)
(***************************************************************************)
\* the k-th integer literal of an expression
literal(k) == IF k <= 4 THEN <<10, 5, 2, 1>>[k] ELSE k

Written(text, value) == [text |-> text, value |-> value]

negated(terms) == {Written((* "-" *) <<45>> \o t.text, 0 - t.value) : t \in terms}

RECURSIVE Expressions(_, _), Joined(_, _), Terms(_, _)

\* the terms with n literals, the first of them the k-th literal
Terms(n, k) ==
    LET plain == IF n = 1 THEN {Written(i32_to_string(literal(k)), literal(k))}
                 ELSE {Written((* "(" *) <<40>> \o e.text \o (* ")" *) <<41>>, e.value) : e \in Joined(n, k)}
    IN plain \cup negated(plain)

\* the expressions with n literals that are an expression, an operator and a term
Joined(n, k) ==
    UNION {UNION {{Written(e.text \o (* " + " *) <<32, 43, 32>> \o t.text, e.value + t.value),
                   Written(e.text \o (* " - " *) <<32, 45, 32>> \o t.text, e.value - t.value)} :
                  e \in Expressions(i, k), t \in Terms(n - i, k + i)} : i \in 1..(n - 1)}

\* the expressions with n literals
Expressions(n, k) == Terms(n, k) \cup Joined(n, k)

\* a literal in parentheses, as a term of its own and as the right operand
InParentheses ==
    {Written((* "(10)" *) <<40, 49, 48, 41>>, 10), Written((* "-(10)" *) <<45, 40, 49, 48, 41>>, -10), Written((* "5 - (2) + 1" *) <<53, 32, 45, 32, 40, 50, 41, 32, 43, 32, 49>>, 4),
     Written((* "-(5) + 2" *) <<45, 40, 53, 41, 32, 43, 32, 50>>, -3), Written((* "((10 - 5)) - 2" *) <<40, 40, 49, 48, 32, 45, 32, 53, 41, 41, 32, 45, 32, 50>>, 3)}

\* the expressions of the examples
ExampleExpressions ==
    {Written((* "10 - (5 - 2) - 1" *) <<49, 48, 32, 45, 32, 40, 53, 32, 45, 32, 50, 41, 32, 45, 32, 49>>, 6), Written((* "1 + (5 - 2)" *) <<49, 32, 43, 32, 40, 53, 32, 45, 32, 50, 41>>, 4),
     Written((* "10 - (5 - 2)" *) <<49, 48, 32, 45, 32, 40, 53, 32, 45, 32, 50, 41>>, 7), Written((* "(10 - 5) - 2" *) <<40, 49, 48, 32, 45, 32, 53, 41, 32, 45, 32, 50>>, 3), Written((* "-5 + 5" *) <<45, 53, 32, 43, 32, 53>>, 0),
     Written((* "2-10" *) <<50, 45, 49, 48>>, -8), Written((* "1+1" *) <<49, 43, 49>>, 2)}

Arithmetic ==
    UNION {Expressions(n, 1) : n \in 1..MaxLiterals} \cup InParentheses
        \cup ExampleExpressions

\* the statement that selects an expression
Statement(text) == (* "select " *) <<115, 101, 108, 101, 99, 116, 32>> \o text \o (* ";" *) <<59>>

\* parse_sql called with the statement of an arithmetic expression
ParseArithmetic ==
    /\ op.kind = "none"
    /\ \E e \in Arithmetic :
          op' = [n |-> op.n, kind |-> "parse_sql", sql |-> Statement(e.text),
                 written |-> e, result |-> parse_sql(Statement(e.text)),
                 values |-> <<>>]
    /\ UNCHANGED <<inserted, serverVars, codecVars, lockVars>>

\* the items of the projections and the table names of the FROM lists
ItemTexts == {(* "1" *) <<49>>, (* "2" *) <<50>>, (* "1 + 1" *) <<49, 32, 43, 32, 49>>, (* "(6 - (2 + 3))" *) <<40, 54, 32, 45, 32, 40, 50, 32, 43, 32, 51, 41, 41>>, (* "name" *) <<110, 97, 109, 101>>}

RECURSIVE separated(_)
\* the items of a list, a comma and a space between them
separated(items) ==
    IF Len(items) = 1 THEN items[1] ELSE items[1] \o (* ", " *) <<44, 32>> \o separated(Tail(items))

\* SELECT item, ... [FROM name, ...] [;]
SelectText(items, names, terminated) ==
    (* "select " *) <<115, 101, 108, 101, 99, 116, 32>> \o separated(items)
        \o (IF names = <<>> THEN <<>> ELSE (* " from " *) <<32, 102, 114, 111, 109, 32>> \o separated(names))
        \o (IF terminated THEN (* ";" *) <<59>> ELSE <<>>)

\* parse_sql called with a SELECT of a list of items and a list of tables
ParseSelect ==
    /\ op.kind = "none"
    /\ \E items \in SeqsUpTo(ItemTexts, MaxItems) \ {<<>>},
          names \in SeqsUpTo(TableNames, MaxItems), terminated \in BOOLEAN :
          op' = [n |-> op.n, kind |-> "parse_sql",
                 sql |-> SelectText(items, names, terminated),
                 items |-> items, names |-> names, terminated |-> terminated,
                 result |-> parse_sql(SelectText(items, names, terminated)),
                 values |-> <<>>]
    /\ UNCHANGED <<inserted, serverVars, codecVars, lockVars>>

\* the words that the texts handed to parse_sql are put together from
Words ==
    {(* "select" *) <<115, 101, 108, 101, 99, 116>>, (* "show" *) <<115, 104, 111, 119>>, (* "tables" *) <<116, 97, 98, 108, 101, 115>>, (* "from" *) <<102, 114, 111, 109>>, (* "1" *) <<49>>, (* "name" *) <<110, 97, 109, 101>>, (* "+" *) <<43>>, (* "(" *) <<40>>, (* ")" *) <<41>>,
     (* "," *) <<44>>, (* ";" *) <<59>>, (* "'x" *) <<39, 120>>}

\* texts of more words: a FROM list that ends early or names no table, a
\* parenthesis behind an expression, an expression in parentheses, closed or not
LongerTexts ==
    {<<(* "select" *) <<115, 101, 108, 101, 99, 116>>, (* "1" *) <<49>>, (* "from" *) <<102, 114, 111, 109>>, (* "1" *) <<49>>>>, <<(* "select" *) <<115, 101, 108, 101, 99, 116>>, (* "1" *) <<49>>, (* "from" *) <<102, 114, 111, 109>>, (* "name" *) <<110, 97, 109, 101>>, (* "," *) <<44>>>>,
     <<(* "select" *) <<115, 101, 108, 101, 99, 116>>, (* "1" *) <<49>>, (* "from" *) <<102, 114, 111, 109>>, (* "name" *) <<110, 97, 109, 101>>, (* "," *) <<44>>, (* "1" *) <<49>>>>,
     <<(* "select" *) <<115, 101, 108, 101, 99, 116>>, (* "1" *) <<49>>, (* "(" *) <<40>>, (* "1" *) <<49>>, (* ")" *) <<41>>, (* ";" *) <<59>>>>,
     <<(* "select" *) <<115, 101, 108, 101, 99, 116>>, (* "(" *) <<40>>, (* "1" *) <<49>>, (* "+" *) <<43>>>>,
     <<(* "select" *) <<115, 101, 108, 101, 99, 116>>, (* "(" *) <<40>>, (* "1" *) <<49>>, (* ";" *) <<59>>>>, <<(* "select" *) <<115, 101, 108, 101, 99, 116>>, (* "(" *) <<40>>, (* "1" *) <<49>>, (* ")" *) <<41>>, (* ";" *) <<59>>>>}

RECURSIVE spaced(_)
\* the words of a text, a space between them
spaced(words) ==
    IF words = <<>> THEN <<>>
    ELSE IF Len(words) = 1 THEN words[1]
    ELSE words[1] \o (* " " *) <<32>> \o spaced(Tail(words))

\* parse_sql called with a text that need not be a statement
ParseText ==
    /\ op.kind = "none"
    /\ \E words \in SeqsUpTo(Words, MaxTokens) \cup LongerTexts :
          op' = [n |-> op.n, kind |-> "parse_sql", sql |-> spaced(words), words |-> words,
                 result |-> parse_sql(spaced(words)), values |-> <<>>]
    /\ UNCHANGED <<inserted, serverVars, codecVars, lockVars>>

\* the values of the two columns of the row an operation is evaluated on
OperandValues ==
    {MNull, MVarchar((* "x" *) <<120>>)} \cup {MInteger(i) : i \in {-2147483647 - 1, -1, 0, 1, 2147483647}}

\* the operands: the column of the row, a column the schema does not have, a literal
LeftOperands == {ReferenceExpression((* "L" *) <<76>>), ReferenceExpression((* "MISSING" *) <<77, 73, 83, 83, 73, 78, 71>>), LeafExpression(1)}
RightOperands == {ReferenceExpression((* "R" *) <<82>>), ReferenceExpression((* "GONE" *) <<71, 79, 78, 69>>), LeafExpression(2)}

\* the schema of a row of the columns l and r
OperandSchema(row) == <<Column((* "l" *) <<108>>, matcher(row[1])), Column((* "r" *) <<114>>, matcher(row[2]))>>

\* l + r in 32 bits, two's complement, when the sum leaves the 32-bit integers
wrapping_add(l, r) ==
    IF ~add_overflows(l, r) THEN l + r
    ELSE IF r > 0 THEN ((l - 2147483647) - 1) + ((r - 2147483647) - 1)
    ELSE ((l + 2147483647) + 1) + ((r + 2147483647) + 1)

\* l - r in 32 bits, two's complement
wrapping_sub(l, r) ==
    IF r = -2147483647 - 1
    THEN (IF l >= 0 THEN (l - 2147483647) - 1 ELSE (l + 2147483647) + 1)
    ELSE wrapping_add(l, 0 - r)

\* OperationExpression::eval in a build with and in a build without overflow
\* checks: where the checked arithmetic aborts, the unchecked one wraps
eval_operation(overflow_checks, expr, schema, row) ==
    LET wrapped(l, r) ==
            Ok(MInteger(IF expr.operation = "Plus" THEN wrapping_add(l.val.i, r.val.i)
                        ELSE wrapping_sub(l.val.i, r.val.i)))
        built(checked) ==
            IF overflow_checks \/ checked.res # "Panic" THEN checked
            ELSE wrapped(eval(expr.left, schema, row), eval(expr.right, schema, row))
    IN built(eval(expr, schema, row))

\* OperationExpression::eval called with operands of every kind
EvaluateOperation ==
    /\ op.kind = "none"
    /\ \E operation \in {"Plus", "Minus"}, left \in LeftOperands, right \in RightOperands,
          row \in [1..2 -> OperandValues], overflow_checks \in BOOLEAN :
          op' = [n |-> op.n, kind |-> "operation", operation |-> operation,
                 overflow_checks |-> overflow_checks,
                 left |-> eval(left, OperandSchema(row), row),
                 right |-> eval(right, OperandSchema(row), row),
                 result |-> eval_operation(overflow_checks,
                                           OperationExpression(operation, left, right),
                                           OperandSchema(row), row)]
    /\ UNCHANGED <<inserted, serverVars, codecVars, lockVars>>

\* execute_sql with the lock of the catalog: the statement is parsed, then the
\* read guard is taken and the clause is executed
execute_sql_locked(sql, manager) ==
    LET clause == parsed(sql)
        locked(database) ==
            IF database.res # "Ok" THEN database
            ELSE execute_clause(clause, database.val)
    IN IF clause.res # "Ok" THEN execute_clause(clause, manager.database)
       ELSE locked(read_expect(manager))

\* what handle_connection sends for a Query: nothing when execute_sql aborts
query_frames(result) ==
    IF result.res = "Panic" THEN <<>> ELSE Append(query_response(result), SReady)

\* execute_sql called by handle_connection with a lock that is or is not poisoned
ExecuteSql ==
    /\ op.kind = "none"
    /\ \E sql \in ClientQueries, poisoned \in BOOLEAN :
          LET manager == IF poisoned THEN poisoned_by_writer(RwLock_new(bootstrap_database))
                         ELSE RwLock_new(bootstrap_database)
              sent(result) ==
                  op' = [n |-> op.n, kind |-> "execute_sql", sql |-> sql,
                         manager |-> manager, result |-> result,
                         response |-> query_frames(result)]
          IN sent(execute_sql_locked(sql, manager))
    /\ UNCHANGED <<inserted, serverVars, codecVars, lockVars>>

\* the values of the projection of a parsed SELECT, on the empty schema and row
values(clause) == [j \in 1..Len(clause.projection) |-> eval(clause.projection[j], <<>>, <<>>)]

\* Expression::eval called on each expression of the projection of a parsed SELECT
Evaluate ==
    /\ op.kind = "parse_sql"
    /\ op.result.res = "Ok"
    /\ op.result.val.clause = "Select"
    /\ op' = [op EXCEPT !.kind = "eval", !.values = values(op.result.val)]
    /\ UNCHANGED <<inserted, serverVars, codecVars, lockVars>>

\* statements, the clause each is, and the words that continue it
TrailingBases ==
    { [words |-> <<(* "show" *) <<115, 104, 111, 119>>, (* "tables" *) <<116, 97, 98, 108, 101, 115>>>>, clause |-> ShowTables, continued |-> {}],
      [words |-> <<(* "select" *) <<115, 101, 108, 101, 99, 116>>, (* "1" *) <<49>>>>,
       clause |-> Select(<<LeafExpression(1)>>, <<>>),
       continued |-> {(* "+" *) <<43>>, (* "," *) <<44>>, (* "from" *) <<102, 114, 111, 109>>}],
      [words |-> <<(* "select" *) <<115, 101, 108, 101, 99, 116>>, (* "name" *) <<110, 97, 109, 101>>, (* "from" *) <<102, 114, 111, 109>>, (* "name" *) <<110, 97, 109, 101>>>>,
       clause |-> Select(<<ReferenceExpression((* "NAME" *) <<78, 65, 77, 69>>)>>, <<(* "NAME" *) <<78, 65, 77, 69>>>>),
       continued |-> {(* "," *) <<44>>}] }

\* a statement and the words written behind it
TrailingCases ==
    (TrailingBases \X (SeqsUpTo(Words, MaxTokens - 1) \ {<<>>}))
        \cup { << [words |-> <<(* "SELECT" *) <<83, 69, 76, 69, 67, 84>>, (* "a" *) <<97>>, (* "FROM" *) <<70, 82, 79, 77>>, (* "t" *) <<116>>>>,
                   clause |-> Select(<<ReferenceExpression((* "A" *) <<65>>)>>, <<(* "T" *) <<84>>>>),
                   continued |-> {(* "," *) <<44>>}],
                 <<(* "WHERE" *) <<87, 72, 69, 82, 69>>, (* "a" *) <<97>>, (* "=" *) <<61>>, (* "b" *) <<98>>>> >> }

\* parse_sql called with a statement and words behind it
ParseTrailing ==
    /\ op.kind = "none"
    /\ \E case \in TrailingCases :
          op' = [n |-> op.n, kind |-> "parse_trailing",
                 sql |-> spaced(case[1].words \o case[2]),
                 base |-> case[1], trailing |-> case[2],
                 result |-> parse_sql(spaced(case[1].words \o case[2])),
                 alone |-> parse_sql(spaced(case[1].words))]
    /\ UNCHANGED <<inserted, serverVars, codecVars, lockVars>>

ParserNext ==
    ParseArithmetic \/ ParseSelect \/ ParseText \/ ParseTrailing \/ Evaluate \/ EvaluateOperation \/ ExecuteSql

SpecParser == InitEngine /\ [][ParserNext]_vars

(***************************************************************************)
(* Properties of the parser                                                *)
(***************************************************************************)
\* the statement of an arithmetic expression has been parsed and evaluated
Evaluated == op.kind = "eval" /\ "written" \in DOMAIN op

\* C22: the tree parsed from an expression of integer literals, binary + and -,
\* unary - and parentheses evaluates to the value of the expression with + and -
\* left-associative, parentheses overriding and negation binding tighter than
\* the binary operators, also when an operator follows a closing parenthesis
C22_StandardArithmetic ==
    Evaluated => op.values = <<Ok(MInteger(op.written.value))>>


\* a SELECT of a list of items and a list of tables has been parsed
SelectParsed == op.kind = "parse_sql" /\ "items" \in DOMAIN op

\* the expression of an item that is the only one of a terminated SELECT
ItemExpression(item) == parse_sql(Statement(item)).val.projection[1]

\* the statement parsed from the items and the table names
SelectParsedTo(items, names) ==
    Ok(Select([j \in 1..Len(items) |-> ItemExpression(items[j])],
              [j \in 1..Len(names) |-> to_uppercase(names[j])]))

\* C23: parse_sql accepts SELECT expr (',' expr)* [FROM identifier (',' identifier)*]
\* with or without a trailing ; and returns Select(projection, from) with one
\* expression per item in order and the FROM identifiers in order, the same with
\* and without the final ; and with and without a FROM clause
C23_SelectList == SelectParsed => op.result = SelectParsedTo(op.items, op.names)


\* a text that need not be a statement has been handed to parse_sql
TextParsed == op.kind = "parse_sql" /\ "words" \in DOMAIN op

\* the token a word is lexed to
TokenOf(word) ==
    CASE word = (* "select" *) <<115, 101, 108, 101, 99, 116>> -> Unit("SELECT") [] word = (* "show" *) <<115, 104, 111, 119>> -> Unit("SHOW")
      [] word = (* "tables" *) <<116, 97, 98, 108, 101, 115>> -> Unit("TABLES") [] word = (* "from" *) <<102, 114, 111, 109>> -> Unit("FROM")
      [] word = (* "1" *) <<49>> -> Token_INTEGER(1) [] word = (* "name" *) <<110, 97, 109, 101>> -> Token_IDENTIFIER((* "NAME" *) <<78, 65, 77, 69>>)
      [] word = (* "+" *) <<43>> -> Unit("PLUS") [] word = (* "(" *) <<40>> -> Unit("LPARENS")
      [] word = (* ")" *) <<41>> -> Unit("RPARENS") [] word = (* "," *) <<44>> -> Unit("COMMA")
      [] word = (* ";" *) <<59>> -> Unit("TERMINATE")

\* the words lex to a token each: none of them opens a string
Lexes(words) == \A i \in 1..Len(words) : words[i] # (* "'x" *) <<39, 120>>

\* the last of the strings that the words open is not closed
OpensString(words) == Cardinality({i \in 1..Len(words) : words[i] = (* "'x" *) <<39, 120>>}) % 2 = 1

\* the i-th word, the empty word behind the last one
word_at(words, i) == IF i <= Len(words) THEN words[i] ELSE <<>>

\* the words end where an expression or a statement goes on: behind SHOW, behind
\* SELECT, behind the operator or the opening parenthesis of the first
\* expression, behind the comma or the FROM that follows the first expression
EndsEarly(words) ==
    \/ words \in {<<(* "show" *) <<115, 104, 111, 119>>>>, <<(* "select" *) <<115, 101, 108, 101, 99, 116>>>>}
    \/ /\ Len(words) = 3
       /\ words[1] = (* "select" *) <<115, 101, 108, 101, 99, 116>>
       /\ words[2] \in {(* "1" *) <<49>>, (* "name" *) <<110, 97, 109, 101>>}
       /\ words[3] \in {(* "+" *) <<43>>, (* "," *) <<44>>, (* "from" *) <<102, 114, 111, 109>>}
    \/ /\ Len(words) = 2
       /\ words[1] = (* "select" *) <<115, 101, 108, 101, 99, 116>>
       /\ words[2] = (* "(" *) <<40>>
    \/ words \in {<<(* "select" *) <<115, 101, 108, 101, 99, 116>>, (* "1" *) <<49>>, (* "from" *) <<102, 114, 111, 109>>, (* "name" *) <<110, 97, 109, 101>>, (* "," *) <<44>>>>,
                  <<(* "select" *) <<115, 101, 108, 101, 99, 116>>, (* "(" *) <<40>>, (* "1" *) <<49>>, (* "+" *) <<43>>>>}

\* the words with no null-denotation
NoNudWords == {(* "select" *) <<115, 101, 108, 101, 99, 116>>, (* "show" *) <<115, 104, 111, 119>>, (* "tables" *) <<116, 97, 98, 108, 101, 115>>, (* "from" *) <<102, 114, 111, 109>>, (* "+" *) <<43>>, (* ")" *) <<41>>, (* "," *) <<44>>, (* ";" *) <<59>>}

\* the words that bind tighter than the power 0 and have no left-denotation
NoLedWords == {(* "1" *) <<49>>, (* "(" *) <<40>>}

\* the error a text that is no statement is answered with
ErrorOf(words) ==
    IF words = <<>> THEN LexingError("NoTokens")
    ELSE IF OpensString(words) THEN LexingError("StringNotTerminated")
    ELSE IF ~Lexes(words) THEN [res |-> "Any"]
    ELSE IF words[1] \notin {(* "select" *) <<115, 101, 108, 101, 99, 116>>, (* "show" *) <<115, 104, 111, 119>>} THEN UnexpectedToken
    ELSE IF EndsEarly(words) THEN EndOfTokens
    ELSE IF words[1] = (* "show" *) <<115, 104, 111, 119>>
         THEN (IF words[2] # (* "tables" *) <<116, 97, 98, 108, 101, 115>> THEN UnexpectedToken ELSE Ok(ShowTables))
    ELSE IF words[2] \in NoNudWords THEN NoNud(TokenOf(words[2]))
    ELSE IF words[2] \in {(* "1" *) <<49>>, (* "name" *) <<110, 97, 109, 101>>} /\ word_at(words, 3) \in NoLedWords
         THEN NoLed(TokenOf(words[3]))
    ELSE IF words[2] = (* "1" *) <<49>> /\ word_at(words, 3) = (* "from" *) <<102, 114, 111, 109>>
         THEN (IF word_at(words, 4) # (* "name" *) <<110, 97, 109, 101>> THEN UnexpectedToken
               ELSE IF word_at(words, 5) = (* "," *) <<44>> /\ word_at(words, 6) # (* "name" *) <<110, 97, 109, 101>>
                    THEN UnexpectedToken
               ELSE [res |-> "Any"])
    ELSE [res |-> "Any"]

\* C24: every parse failure is a returned ParseError, never a crash: EndOfTokens
\* when the tokens end in the middle of an expression or statement, NoNud(token)
\* when a token with no null-denotation starts an expression, NoLed(token) when a
\* token binding tighter than the current power has no left-denotation,
\* UnexpectedToken when the statement does not start with SHOW TABLES or SELECT or
\* a FROM item is not an identifier, and a lexing error converted to a parse error
C24_ParseErrors ==
    TextParsed =>
        /\ op.result.res \in {"Ok", "Err"}
        /\ ErrorOf(op.words).res # "Any" => op.result = ErrorOf(op.words)


\* an operation has been evaluated
OperationEvaluated == op.kind = "operation"

\* a returned data error
IsDataError(result) == result.res = "Err" /\ "msg" \in DOMAIN result

\* l + r or l - r leaves the 32-bit integers
Overflows(operation, l, r) ==
    IF operation = "Plus" THEN add_overflows(l, r)
    ELSE IF r = -2147483647 - 1 THEN l >= 0
    ELSE add_overflows(l, 0 - r)

\* the Integer an operation on two Integers returns
IntegerResult(operation, l, r, result) ==
    /\ result.res = "Ok"
    /\ result.val.t = "Integer"
    /\ ~Overflows(operation, l, r) =>
           result.val.i = (IF operation = "Plus" THEN l + r ELSE l - r)

\* C25: evaluating a binary + or - returns Integer(l + r) or Integer(l - r) when
\* both operands evaluate to Integer, and fails with a returned data error, not a
\* crash, for every other combination of Null, Integer and Varchar operands; an
\* error raised by either operand is the result
C25_Operation ==
    OperationEvaluated =>
        IF op.left.res # "Ok" THEN op.result = op.left
        ELSE IF op.right.res # "Ok" THEN op.result = op.right
        ELSE IF op.left.val.t = "Integer" /\ op.right.val.t = "Integer"
             THEN IntegerResult(op.operation, op.left.val.i, op.right.val.i, op.result)
        ELSE IsDataError(op.result)


\* execute_sql has been called for a statement that parses, with a poisoned lock
PoisonedExecuted ==
    /\ op.kind = "execute_sql"
    /\ op.manager.poisoned
    /\ parse_sql(op.sql).res = "Ok"

create_call(name, columns) == [call |-> "create_table", name |-> name, columns |-> columns]
insert_call(table_name, colums) == [call |-> "insert", name |-> table_name, colums |-> colums]

\* the calls run_microbat makes for the i-th table it creates
calls_of_table(i) ==
    <<create_call(bootstrap_database.keys[i], bootstrap_database.tables[i])>>
        \o [r \in 1..Len(bootstrap_database.data[i]) |->
                insert_call(bootstrap_database.keys[i], bootstrap_database.data[i][r])]

\* the calls of run_microbat on the write guard init_db, in order
BootstrapCalls == Flatten([i \in 1..Len(bootstrap_database.keys) |-> calls_of_table(i)])

\* create_table up to self.tables.insert: the table is registered
tables_insert(database, name, columns) ==
    IF has_table(database, name) THEN DataErr((* "Table already exists: " *) <<84, 97, 98, 108, 101, 32, 97, 108, 114, 101, 97, 100, 121, 32, 101, 120, 105, 115, 116, 115, 58, 32>> \o name)
    ELSE LET schema == TableSchema_new(columns) IN
         IF schema.res # "Ok" THEN schema
         ELSE Ok([database EXCEPT !.keys = Append(@, name),
                                  !.tables = Append(@, schema.val)])

\* create_table, self.data.insert: the registered table gets its row storage
data_insert(database) == [database EXCEPT !.data = Append(@, <<>>), !.seen = FALSE]

\* database.write(): the guard is given when nobody holds the lock
write_blocked(lock) == lock.writer \/ lock.readers # {}

\* manager.read(): the guard is given when no writer holds the lock
read_blocked(lock) == lock.writer

\* the write guard init_db stays in the hands of run_microbat
keep_write(lock) == lock

\* drop(init_db)
drop_write(lock) == [lock EXCEPT !.writer = FALSE]

\* the read guard stays in the hands of the thread after execute_sql
keep_read(lock, c) == lock

\* the read guard database goes out of scope when execute_sql returns or aborts
drop_read(lock, c) == [lock EXCEPT !.readers = @ \ {c}]

\* the frames are written last first
last_frame(frames) == frames[Len(frames)]

\* the frame handle_connection sends next: the first of those not yet sent
next_frame(frames) == Head(frames)

\* the frames that are left after one of them has been sent
frames_left(frames, frame) ==
    LET i == CHOOSE k \in 1..Len(frames) : frames[k] = frame /\
                 \A j \in 1..(k - 1) : frames[j] # frame
    IN SubSeq(frames, 1, i - 1) \o SubSeq(frames, i + 1, Len(frames))

\* what the clients of the threads write
ThreadFrames ==
    {client_as_bytes(CHandshake), client_as_bytes(CDisconnect)}
        \cup {client_as_bytes(CQuery(q)) :
                  q \in {(* "show tables" *) <<115, 104, 111, 119, 32, 116, 97, 98, 108, 101, 115>>, (* "select id_mode from MODES" *) <<115, 101, 108, 101, 99, 116, 32, 105, 100, 95, 109, 111, 100, 101, 32, 102, 114, 111, 109, 32, 77, 79, 68, 69, 83>>, (* "select 1;" *) <<115, 101, 108, 101, 99, 116, 32, 49, 59>>}}

\* a client writes a frame; the listener is bound before the catalog is built
ThreadClientSend(c) ==
    /\ ~closed[c] /\ nsent < MaxSends
    /\ \E frame \in ThreadFrames : c2s' = [c2s EXCEPT ![c] = @ \o frame]
    /\ nsent' = nsent + 1
    /\ UNCHANGED <<db, closed, s2c, worker, turn, client, codecVars, engineVars, lockVars>>

\* run_microbat: database.write().unwrap()
MainWrite ==
    /\ main.pc = "new"
    /\ ~write_blocked(rwlock)
    /\ rwlock' = [rwlock EXCEPT !.writer = TRUE]
    /\ main' = [main EXCEPT !.pc = "init"]
    /\ UNCHANGED <<phase, serverVars, codecVars, engineVars>>

\* run_microbat: the next call on init_db, unwrapped; create_table in its two
\* insertions.  A call that fails aborts the main thread with the guard held.
BootstrapCall ==
    /\ main.pc = "init"
    /\ main.step < Len(BootstrapCalls)
    /\ LET call == BootstrapCalls[main.step + 1]
           done(result) ==
               IF result.res # "Ok"
               THEN /\ rwlock' = [rwlock EXCEPT !.writer = FALSE, !.poisoned = TRUE]
                    /\ main' = [main EXCEPT !.pc = "panicked"]
               ELSE /\ rwlock' = [rwlock EXCEPT !.database = result.val]
                    /\ main' = IF call.call = "create_table" /\ ~main.half
                               THEN [main EXCEPT !.half = TRUE]
                               ELSE [main EXCEPT !.half = FALSE, !.step = @ + 1]
       IN IF call.call = "insert"
          THEN done(insert(rwlock.database, call.name, call.colums))
          ELSE IF main.half THEN done(Ok(data_insert(rwlock.database)))
          ELSE done(tables_insert(rwlock.database, call.name, call.columns))
    /\ UNCHANGED <<phase, serverVars, codecVars, engineVars>>

\* run_microbat: drop(init_db), then listener.incoming()
MainDrop ==
    /\ main.pc = "init"
    /\ main.step = Len(BootstrapCalls)
    /\ rwlock' = drop_write(rwlock)
    /\ main' = [main EXCEPT !.pc = "listening"]
    /\ UNCHANGED <<phase, serverVars, codecVars, engineVars>>

\* the thread of a connection, at the head of the loop of handle_connection
Reading(thread_id) ==
    [pc |-> "read", thread |-> thread_id, clause |-> NoResult, pending |-> <<>>,
     served |-> 0, produced |-> <<>>, log |-> <<>>]

\* run_microbat: a connection is accepted and a thread is spawned for its stream
Spawn(c) ==
    /\ main.pc = "listening"
    /\ worker[c] = "unspawned"
    /\ worker' = [worker EXCEPT ![c] = "running"]
    /\ phase' = [phase EXCEPT ![c] = Reading(main.thread_id)]
    /\ main' = [main EXCEPT !.thread_id = @ + 1]
    /\ UNCHANGED <<rwlock, db, c2s, closed, s2c, turn, client, nsent, codecVars, engineVars>>

\* the frames of a response, each with the thread and the request it answers
Produced(c, frames) ==
    [i \in 1..Len(frames) |->
        [thread |-> phase[c].thread, request |-> phase[c].served + 1, message |-> frames[i]]]

\* the thread has the response of a request in its hands and goes on to send it
Respond(c, frames) ==
    phase' = [phase EXCEPT ![c].pc = IF frames = <<>> THEN "read" ELSE "send",
                           ![c].pending = Produced(c, frames),
                           ![c].produced = @ \o Produced(c, frames),
                           ![c].served = @ + 1,
                           ![c].clause = NoResult]

\* the thread leaves handle_connection
Leave(c, state) ==
    /\ worker' = [worker EXCEPT ![c] = state]
    /\ phase' = [phase EXCEPT ![c].pc = "gone", ![c].clause = NoResult]

\* handle_connection: read_message, and for a Query parse_sql in execute_sql
ThreadRead(c) ==
    /\ worker[c] = "running"
    /\ phase[c].pc = "read"
    /\ LET message == worker_read(c)
           clause == parsed(message.val.text)
       IN /\ message.res # "Block"
          /\ c2s' = [c2s EXCEPT ![c] = IF message.res = "Panic" THEN <<>> ELSE message.rest]
          /\ IF message.res = "Panic" THEN Leave(c, "panicked")
             ELSE IF message.res = "Err" THEN Leave(c, "failed")
             ELSE IF message.val.kind = "Disconnect" THEN Leave(c, "exited")
             ELSE IF message.val.kind = "Handshake"
                  THEN Respond(c, <<SHandshake, SReady>>) /\ UNCHANGED worker
             ELSE IF clause.res = "Panic" THEN Leave(c, "panicked")
             ELSE IF clause.res = "Err"
                  THEN Respond(c, query_frames(execute_clause(clause, rwlock.database)))
                           /\ UNCHANGED worker
             ELSE /\ phase' = [phase EXCEPT ![c].pc = "lock", ![c].clause = clause]
                  /\ UNCHANGED worker
    /\ UNCHANGED <<rwlock, main, db, closed, s2c, turn, client, nsent, codecVars, engineVars>>

\* execute_sql: manager.read().expect("RwLock poisoned")
ThreadLock(c) ==
    /\ worker[c] = "running"
    /\ phase[c].pc = "lock"
    /\ ~read_blocked(rwlock)
    /\ IF read_expect(rwlock).res = "Panic"
       THEN Leave(c, "panicked") /\ UNCHANGED rwlock
       ELSE /\ rwlock' = [rwlock EXCEPT !.readers = @ \cup {c}]
            /\ phase' = [phase EXCEPT ![c].pc = "locked"]
            /\ UNCHANGED worker
    /\ UNCHANGED <<main, db, c2s, closed, s2c, turn, client, nsent, codecVars, engineVars>>

\* execute_sql under the read guard, until it returns or aborts
ThreadExecute(c) ==
    /\ worker[c] = "running"
    /\ phase[c].pc = "locked"
    /\ \E database \in iterated(rwlock.database, phase[c].clause) :
          LET result == execute_clause(phase[c].clause, database) IN
          /\ rwlock' = drop_read([rwlock EXCEPT !.database = database], c)
          /\ IF result.res = "Panic" THEN Leave(c, "panicked")
             ELSE Respond(c, query_frames(result)) /\ UNCHANGED worker
    /\ UNCHANGED <<main, db, c2s, closed, s2c, turn, client, nsent, codecVars, engineVars>>

\* handle_connection: the next frame of the response is sent on the stream
ThreadSend(c) ==
    /\ worker[c] = "running"
    /\ phase[c].pc = "send"
    /\ LET frame == next_frame(phase[c].pending)
           left == frames_left(phase[c].pending, frame)
       IN /\ s2c' = [s2c EXCEPT ![c] = @ \o server_as_bytes(frame.message)]
          /\ phase' = [phase EXCEPT ![c].pending = left,
                                    ![c].log = Append(@, frame),
                                    ![c].pc = IF left = <<>> THEN "read" ELSE "send"]
    /\ UNCHANGED <<rwlock, main, db, c2s, closed, worker, turn, client, nsent,
                   codecVars, engineVars>>

InitThreads ==
    /\ db = new_manager
    /\ op = NoOp
    /\ inserted = [name \in TableNames |-> <<>>]
    /\ c2s = [c \in Conns |-> <<>>]
    /\ closed = [c \in Conns |-> FALSE]
    /\ s2c = [c \in Conns |-> <<>>]
    /\ worker = [c \in Conns |-> "unspawned"]
    /\ turn = [c \in Conns |-> NoTurn]
    /\ client = [c \in Conns |-> [pc |-> "idle", got |-> <<>>]]
    /\ nsent = 0
    /\ cmsg = [src |-> "none"]
    /\ wire = <<>>
    /\ decoded = NoResult
    /\ rwlock = RwLock_new(new_manager)
    /\ main = [pc |-> "new", step |-> 0, half |-> FALSE, thread_id |-> 1]
    /\ phase = [c \in Conns |-> NoPhase]

ThreadsNext ==
    \/ MainWrite
    \/ BootstrapCall
    \/ MainDrop
    \/ \E c \in Conns : Spawn(c)
    \/ \E c \in Conns : ThreadClientSend(c)
    \/ \E c \in Conns : ClientClose(c)
    \/ \E c \in Conns : ThreadRead(c)
    \/ \E c \in Conns : ThreadLock(c)
    \/ \E c \in Conns : ThreadExecute(c)
    \/ \E c \in Conns : ThreadSend(c)

SpecThreads == InitThreads /\ [][ThreadsNext]_vars


(***************************************************************************)
(* Properties of the threads                                               *)
(***************************************************************************)
\* the thread of c is at the network: it waits for a frame or writes one
AtNetwork(c) == phase[c].pc \in {"read", "send"}

\* the frames the thread of c has still to write answer a statement that was
\* executed with the read guard
AnswersStatement(c) ==
    /\ phase[c].pending # <<>>
    /\ phase[c].pending[1].message.kind \notin {"Handshake", "Error", "Ready"}

\* C27: a thread holds the lock of the catalog only while it executes one
\* statement: the read guard is given back before the first frame of the response
\* is written and before the next frame is read, so no thread is at the network
\* with the lock in its hands
C27_LockPerStatement ==
    \A c \in Conns : c \in rwlock.readers => phase[c].pc = "locked" /\ ~AtNetwork(c)

\* a thread writes the response of a statement it has executed under the guard
C27_Witness ==
    \E c \in Conns : phase[c].pc = "send" /\ AnswersStatement(c) /\ c \notin rwlock.readers


\* every registered table has its row storage
Stored(database) ==
    Len(database.tables) = Len(database.keys) /\ Len(database.data) = Len(database.keys)

\* the thread of c is spawned
Spawned(c) == worker[c] # "unspawned"

\* C28: the catalog is read by many or written by one: while the write guard is
\* held no thread holds a read guard, a thread that reads sees every registered
\* table with its row storage, and the main thread has given its write guard
\* back before the first connection is served
C28_ReadersOrWriter ==
    /\ rwlock.writer => rwlock.readers = {}
    /\ \A c \in rwlock.readers : ~rwlock.writer /\ Stored(rwlock.database)
    /\ \A c \in Conns : Spawned(c) => main.pc = "listening" /\ ~rwlock.writer

\* the threads of all connections read the catalog at the same time
C28_Witness == rwlock.readers = Conns /\ Cardinality(Conns) > 1

\* the frames of the log of c, as bytes
LogBytes(c) == Flatten([i \in 1..Len(phase[c].log) |-> server_as_bytes(phase[c].log[i].message)])

\* what the thread of c has written is the beginning of what it has produced
InOrderProduced(c) ==
    /\ Len(phase[c].log) <= Len(phase[c].produced)
    /\ phase[c].log = SubSeq(phase[c].produced, 1, Len(phase[c].log))

\* C29: each accepted connection is served by one thread of its own; what is
\* written on a connection are the frames its thread has produced, in the order
\* it produced them, the frames of a response together and the responses in the
\* order of the requests, and no frame of another connection
C29_OrderedPerConnection ==
    /\ \A c, d \in Conns : Spawned(c) /\ Spawned(d) /\ c # d => phase[c].thread # phase[d].thread
    /\ \A c \in Conns :
          Spawned(c) =>
              /\ s2c[c] = LogBytes(c)
              /\ InOrderProduced(c)
              /\ \A i \in 1..Len(phase[c].log) :
                    /\ phase[c].log[i].thread = phase[c].thread
                    /\ i > 1 => phase[c].log[i - 1].request <= phase[c].log[i].request
              /\ phase[c].pc \in {"read", "lock", "locked"} => phase[c].log = phase[c].produced
    /\ \A c \in Conns : ~Spawned(c) => s2c[c] = <<>>

\* a thread has written the responses of two requests, of more than one frame
C29_Witness ==
    \E c \in Conns :
        /\ Spawned(c)
        /\ Len(phase[c].log) > 2
        /\ phase[c].log[Len(phase[c].log)].request = 2
        /\ phase[c].log[1].request = 1


(***************************************************************************)
(* Properties of the catalog as a whole                                    *)
(***************************************************************************)
\* the names that have a schema in tables, the names that have rows in data
TableNamesOf(database) == {database.keys[i] : i \in 1..Len(database.tables)}
DataNamesOf(database) == {database.keys[i] : i \in 1..Len(database.data)}

\* C30: in every catalog state the table names of tables are the table names of
\* data; the schema of a table is the one given at create_table and is not changed
\* by a later call, and no call removes a table
C30_CatalogInvariant ==
    /\ TableNamesOf(db) = DataNamesOf(db)
    /\ Len(db.tables) = Len(db.keys) /\ Len(db.data) = Len(db.keys)
    /\ op.kind \in {"create_table", "insert"} =>
          /\ \A name \in TableNames :
                has_table(op.before, name) =>
                    has_table(db, name) /\ SchemaOf(db, name) = SchemaOf(op.before, name)
          /\ op.kind = "create_table" /\ op.res = "Ok" => SchemaOf(db, op.name) = op.arg

\* both tables exist and a create_table with another schema has been refused
C30_Witness ==
    /\ Cardinality(TableNamesOf(db)) = Cardinality(TableNames)
    /\ op.kind = "create_table"
    /\ op.res = "Err"
    /\ has_table(op.before, op.name)
    /\ SchemaOf(db, op.name) # op.arg



(***************************************************************************)
(* RelationTable (data/table_model.rs): the rows of a result.              *)
(***************************************************************************)
\* the Debug text of an MDataType
MDataType_debug(data_type) ==
    CASE data_type = "Null" -> (* "Null" *) <<78, 117, 108, 108>>
      [] data_type = "Integer" -> (* "Integer" *) <<73, 110, 116, 101, 103, 101, 114>>
      [] data_type = "Varchar" -> (* "Varchar" *) <<86, 97, 114, 99, 104, 97, 114>>

\* TableSchema::matches_at, index counted from 0
matches_at(schema, index, data_type) ==
    IF index < Len(schema) THEN schema[index + 1].data_type = data_type ELSE FALSE

\* RelationTable::new
RelationTable_new(schema) == [schema |-> schema, rows |-> <<>>]

\* the index (from 0) of the first value of the row whose type the schema does
\* not have at its index, Len(row) when there is none
RECURSIVE first_unmatched(_, _, _)
first_unmatched(schema, row, index) ==
    IF index >= Len(row) THEN Len(row)
    ELSE IF ~matches_at(schema, index, matcher(row[index + 1])) THEN index
    ELSE first_unmatched(schema, row, index + 1)

\* a push_row that does not compare the length of the row with the schema
push_row_any_length(relation, row) ==
    LET at(index) ==
            IF index < Len(row)
            THEN DataErr((* "Can't put " *) <<67, 97, 110, 39, 116, 32, 112, 117, 116, 32>> \o MDataType_debug(matcher(row[index + 1]))
                            \o (* " into index " *) <<32, 105, 110, 116, 111, 32, 105, 110, 100, 101, 120, 32>> \o i32_to_string(index))
            ELSE Ok([relation EXCEPT !.rows = Append(@, row)])
    IN at(first_unmatched(relation.schema, row, 0))

\* RelationTable::push_row: the relation after the call, or the error
push_row(relation, row) ==
    IF Len(row) # Len(relation.schema)
    THEN DataErr((* "Trying to put " *) <<84, 114, 121, 105, 110, 103, 32, 116, 111, 32, 112, 117, 116, 32>> \o i32_to_string(Len(row)) \o (* " columns but schema has " *) <<32, 99, 111, 108, 117, 109, 110, 115, 32, 98, 117, 116, 32, 115, 99, 104, 101, 109, 97, 32, 104, 97, 115, 32>>
                    \o i32_to_string(Len(relation.schema)) \o (* " columns" *) <<32, 99, 111, 108, 117, 109, 110, 115>>)
    ELSE LET at(index) ==
                 IF index < Len(row)
                 THEN DataErr((* "Can't put " *) <<67, 97, 110, 39, 116, 32, 112, 117, 116, 32>> \o MDataType_debug(matcher(row[index + 1]))
                                 \o (* " into index " *) <<32, 105, 110, 116, 111, 32, 105, 110, 100, 101, 120, 32>> \o i32_to_string(index))
                 ELSE Ok([relation EXCEPT !.rows = Append(@, row)])
         IN at(first_unmatched(relation.schema, row, 0))

(***************************************************************************)
(* A relation on its own: RelationTable::new, then calls of push_row.      *)
(***************************************************************************)
\* the schemas TableSchema::new gives, one of them with a column of type Null
RelationSchemas ==
    (EngineSchemas \ {<<>>})
        \cup { <<Column((* "nothing" *) <<110, 111, 116, 104, 105, 110, 103>>, "Null")>>,
               <<Column((* "id" *) <<105, 100>>, "Integer"), Column((* "nothing" *) <<110, 111, 116, 104, 105, 110, 103>>, "Null")>> }

RelationNew ==
    /\ op.kind = "none"
    /\ \E columns \in RelationSchemas :
         op' = [n |-> 0, kind |-> "relation",
                relation |-> RelationTable_new(TableSchema_new(columns).val),
                row |-> <<>>, res |-> "none", msg |-> <<>>,
                before |-> RelationTable_new(TableSchema_new(columns).val)]
    /\ UNCHANGED <<db, inserted, connVars, codecVars, lockVars>>

PushRow ==
    /\ op.kind = "relation"
    /\ op.n < MaxOps
    /\ \E row \in EngineRows :
         LET done(result) ==
                 op' = [n |-> op.n + 1, kind |-> "relation",
                        relation |-> IF result.res = "Ok" THEN result.val ELSE op.relation,
                        row |-> row, res |-> result.res,
                        msg |-> IF result.res = "Ok" THEN <<>> ELSE result.msg,
                        before |-> op.relation]
         IN done(push_row(op.relation, row))
    /\ UNCHANGED <<db, inserted, connVars, codecVars, lockVars>>

RelationNext == RelationNew \/ PushRow

SpecRelation == InitEngine /\ [][RelationNext]_vars

\* the row has the length of the schema and each value the type of its column
Conforms(schema, row) ==
    /\ Len(row) = Len(schema)
    /\ \A i \in 1..Len(row) : matcher(row[i]) = schema[i].data_type

\* C31: every row a RelationTable holds conforms to its schema: push_row appends
\* the row when its length is the length of the schema and each value has the
\* type of the column at its index (Null only in a column of type Null), and
\* otherwise fails and leaves the rows as they were
C31_RowsConform ==
    op.kind = "relation" =>
        /\ \A i \in 1..Len(op.relation.rows) :
              Conforms(op.relation.schema, op.relation.rows[i])
        /\ op.relation.schema = op.before.schema
        /\ op.n > 0 =>
              IF Conforms(op.before.schema, op.row)
              THEN op.res = "Ok" /\ op.relation.rows = Append(op.before.rows, op.row)
              ELSE op.res = "Err" /\ op.relation.rows = op.before.rows

\* a relation of an Integer and a Varchar column that holds a row has refused
\* a row of the right length with a Null for its Varchar column
C31_Witness ==
    /\ op.kind = "relation"
    /\ op.n > 0
    /\ op.res = "Err"
    /\ op.row = <<MInteger(1), MNull>>
    /\ Len(op.relation.schema) = 2
    /\ op.relation.schema[2].data_type = "Varchar"
    /\ Len(op.relation.rows) > 0



(***************************************************************************)
(* Properties of the SqlLexer, push by push                                *)
(***************************************************************************)
RECURSIVE pushes(_, _, _)
\* the calls of push_char SqlLexer::next makes on a text, up to the first error:
\* for each the buffer before, the character, the peeked one, the buffer after
\* and what was returned
pushes(self, source, trace) ==
    IF source = <<>> THEN trace
    ELSE LET step(r) ==
                 LET call == [before |-> self, current_char |-> Head(source),
                              peek_value |-> peek_char(source),
                              after |-> r.self, out |-> r.out]
                 IN IF r.out.res = "Err" THEN Append(trace, call)
                    ELSE pushes(r.self, Tail(source), Append(trace, call))
         IN step(LexBuffer_push_char(self, Head(source), peek_char(source)))

\* the tokens the pushes returned
RECURSIVE tokens_of(_)
tokens_of(trace) ==
    IF trace = <<>> THEN <<>>
    ELSE (IF Head(trace).out.res = "Some" THEN <<Head(trace).out.token>> ELSE <<>>)
            \o tokens_of(Tail(trace))

\* the push of a `<` or `>` outside a string with `=` as the next character
OpensCompound(call) ==
    /\ call.before.mode = "Normal"
    /\ call.current_char \in {60 (* '<' *), 62 (* '>' *)}
    /\ call.peek_value = 61 (* '=' *)

\* what the pushes of a text do with ForcePop
ForcePopOf(trace) ==
    \A i \in 1..Len(trace) :
        /\ trace[i].before.mode # "ForcePop" =>
              (trace[i].after.mode = "ForcePop" <=> OpensCompound(trace[i]))
        /\ trace[i].before.mode = "ForcePop" =>
              /\ i > 1 /\ OpensCompound(trace[i - 1])
              /\ trace[i].current_char = 61 (* '=' *)
              /\ trace[i].after.mode = "Normal"
              /\ trace[i].out.res = "Some"
              /\ trace[i].out.token.token_type =
                    IF trace[i - 1].current_char = 60 (* '<' *) THEN Unit("LTE") ELSE Unit("GTE")
        /\ (trace[i].out.res = "Some" /\ trace[i].out.token.token_type \in {Unit("LT"), Unit("GT")})
              => trace[i].peek_value # 61 (* '=' *)

\* C32: `<=` and `>=` are each emitted as one LTE or GTE token, never as LT or
\* GT followed by EQ: the lexer enters ForcePop only when the character is `<`
\* or `>` and the next one is `=`, ForcePop lasts one pushed character, and that
\* push emits the compound token and puts the lexer back to Normal
C32_CompoundOperators ==
    op.kind = "lex" =>
        LET k(trace) ==
                /\ ForcePopOf(trace)
                /\ op.lexer.buffer.mode # "ForcePop"
                /\ LexEnded => op.tokens = tokens_of(trace)
        IN k(pushes(LexBuffer_new, op.source, <<>>))

\* `a>=a` has been lexed to its end: an identifier, GTE, an identifier
C32_Witness ==
    /\ LexedAll
    /\ op.source = (* "a>=a" *) <<97, 62, 61, 97>>
    /\ TokenTypesOf(op.tokens) = <<Token_IDENTIFIER((* "a" *) <<97>>), Unit("GTE"), Token_IDENTIFIER((* "a" *) <<97>>)>>



\* the push that returned the token before the one push i returned, 0 for the first
EndOfPrevious(trace, i) ==
    LET ends == {j \in 1..(i - 1) : trace[j].out.res = "Some"}
    IN IF ends = {} THEN 0 ELSE CHOOSE j \in ends : \A k \in ends : k <= j

\* the column of the first character of the token push i returned: the quote
\* that opened the string, else the first character after the token before that
\* is no whitespace
FirstColumn(trace, i) ==
    IF trace[i].out.token.token_type.t = "STRING"
    THEN CHOOSE j \in 1..(i - 1) :
            /\ trace[j].current_char = 39 (* ''' *) /\ trace[j].before.mode # "String"
            /\ \A k \in (j + 1)..(i - 1) : trace[k].before.mode = "String"
    ELSE CHOOSE j \in (EndOfPrevious(trace, i) + 1)..i :
            /\ ~char_is_whitespace(trace[j].current_char)
            /\ \A k \in (EndOfPrevious(trace, i) + 1)..(j - 1) :
                  char_is_whitespace(trace[k].current_char)

\* every token the pushes returned has the column of its first character
ColumnsOf(trace) ==
    \A i \in 1..Len(trace) :
        trace[i].out.res = "Some" =>
            trace[i].out.token.source_ref.column = FirstColumn(trace, i)

\* C33: for every token the lexer emits, source_ref.column is the column, counted
\* from 1, of the first character of the token in its text (the opening quote of
\* a string, the `<` or `>` of a compound operator), whatever whitespace stands
\* in front of the tokens and between them
C33_TokenColumns ==
    LexEnded =>
        LET k(trace) == op.tokens = tokens_of(trace) /\ ColumnsOf(trace)
        IN k(pushes(LexBuffer_new, op.source, <<>>))



\* the token of the characters between two delimiters: a number when the first
\* of them is a digit, else an identifier
run_token(run) ==
    IF run = <<>> THEN <<>>
    ELSE IF is_numeric(run[1]) THEN <<Token_INTEGER(parse_digits(run))>>
    ELSE <<Token_IDENTIFIER(run)>>

RECURSIVE number_tokens(_, _)
\* the tokens of a text of digits, letters, blanks, `-` and `;`
number_tokens(text, run) ==
    IF text = <<>> THEN run_token(run)
    ELSE IF Head(text) = 32 (* ' ' *) THEN run_token(run) \o number_tokens(Tail(text), <<>>)
    ELSE IF Head(text) = 59 (* ';' *)
         THEN run_token(run) \o <<Unit("TERMINATE")>> \o number_tokens(Tail(text), <<>>)
    ELSE IF Head(text) = 45 (* '-' *)
         THEN run_token(run) \o <<Unit("MINUS")>> \o number_tokens(Tail(text), <<>>)
    ELSE number_tokens(Tail(text), Append(run, Head(text)))

\* no letter stands behind a digit that began a token
DigitsThenDelimiter(text) ==
    \A i \in 1..Len(text) :
        (is_numeric(text[i]) /\ (i = 1 \/ text[i - 1] \in {32 (* ' ' *), 59 (* ';' *), 45 (* '-' *)}))
            => \A j \in i..Len(text) :
                  text[j] = 97 (* 'a' *) => \E k \in i..j : text[k] \in {32 (* ' ' *), 59 (* ';' *), 45 (* '-' *)}

\* C34: a token whose first character is a digit is emitted as INTEGER(n), n the
\* decimal value of the digits up to the next delimiter (whitespace, `;`, the
\* `-` of a subtraction such as `2-10`); a digit that is not the first character
\* of a token stays a part of the identifier (`a1`)
C34_IntegerTokens ==
    (LexEnded /\ op.source \in LexNumbered /\ DigitsThenDelimiter(op.source)) =>
        /\ op.out.res = "None"
        /\ TokenTypesOf(op.tokens) = number_tokens(op.source, <<>>)



\* the text a token type is written as
written_token(token_type) ==
    CASE token_type.t = "IDENTIFIER" -> token_type.s
      [] token_type.t = "STRING" -> <<39 (* ''' *)>> \o token_type.s \o <<39 (* ''' *)>>
      [] token_type.t = "SELECT" -> (* "select" *) <<115, 101, 108, 101, 99, 116>>
      [] token_type.t = "UPDATE" -> (* "update" *) <<117, 112, 100, 97, 116, 101>>
      [] token_type.t = "INSERT" -> (* "insert" *) <<105, 110, 115, 101, 114, 116>>
      [] token_type.t = "DELETE" -> (* "delete" *) <<100, 101, 108, 101, 116, 101>>
      [] token_type.t = "WHERE" -> (* "where" *) <<119, 104, 101, 114, 101>>
      [] token_type.t = "FROM" -> (* "from" *) <<102, 114, 111, 109>>
      [] token_type.t = "SET" -> (* "set" *) <<115, 101, 116>>
      [] token_type.t = "COMMA" -> (* "," *) <<44>>
      [] token_type.t = "DOT" -> (* "." *) <<46>>
      [] token_type.t = "LPARENS" -> (* "(" *) <<40>>
      [] token_type.t = "RPARENS" -> (* ")" *) <<41>>
      [] token_type.t = "EQ" -> (* "=" *) <<61>>
      [] token_type.t = "LT" -> (* "<" *) <<60>>
      [] token_type.t = "GT" -> (* ">" *) <<62>>
      [] token_type.t = "LTE" -> (* "<=" *) <<60, 61>>
      [] token_type.t = "GTE" -> (* ">=" *) <<62, 61>>
      [] token_type.t = "PLUS" -> (* "+" *) <<43>>
      [] token_type.t = "TERMINATE" -> (* ";" *) <<59>>

RECURSIVE respaced(_)
\* the token types written one after the other with one blank between them
respaced(token_types) ==
    IF token_types = <<>> THEN <<>>
    ELSE IF Len(token_types) = 1 THEN written_token(token_types[1])
    ELSE written_token(Head(token_types)) \o (* " " *) <<32>> \o respaced(Tail(token_types))

\* C35: lexing is stable under re-spacing: for every text that lexes without an
\* error, the text of its tokens with one blank between them lexes to the same
\* sequence of token types, a string being compared by its content
C35_Respacing ==
    LexedAll =>
        LET k(again) ==
                /\ again.out.res = "None"
                /\ again.token_types = TokenTypesOf(op.tokens)
        IN k(Lexed(respaced(TokenTypesOf(op.tokens))))

\* `'Ab'<=;` has been lexed: its re-spaced text is `'Ab' <= ;`
C35_Witness ==
    /\ LexedAll
    /\ op.source = (* "'Ab'<=;" *) <<39, 65, 98, 39, 60, 61, 59>>
    /\ respaced(TokenTypesOf(op.tokens)) = (* "'Ab' <= ;" *) <<39, 65, 98, 39, 32, 60, 61, 32, 59>>



(***************************************************************************)
(* The client in MicroBatTcpClient::query (client.rs): the QUERY is sent,  *)
(* then the frames of the response are read.  The position of the client: *)
(*   query   the read of the first frame of the response                   *)
(*   rows    read_data_rows_until_ready                                    *)
(*   ready   read_ready, after an InsertResult or an Error                 *)
(*   returned, with what query returned: a result, the error the server    *)
(*           sent, or an error the client found itself                     *)
(***************************************************************************)
QueryOk(kind) == [res |-> "Ok", kind |-> kind]
ServerError(text) == [res |-> "Err", by |-> "server", text |-> text]
ClientError(kind) == [res |-> "Err", by |-> "client", kind |-> kind]

At(pc, pending) == [pc |-> pc, pending |-> pending]

\* a read of a response that takes the first DataRow for the end of the rows
query_read_one_row(pc, pending, message) ==
    IF message.res # "Ok" THEN At("returned", ClientError(message.kind))
    ELSE CASE pc = "query" ->
                 IF message.val.kind = "DataDescription" THEN At("rows", QueryOk("DataTable"))
                 ELSE IF message.val.kind = "InsertResult" THEN At("ready", QueryOk("Mutation"))
                 ELSE IF message.val.kind = "Error"
                      THEN At("ready", ServerError(message.val.text))
                 ELSE At("returned", ClientError("Expecting 'DataDescription'"))
           [] pc = "rows" ->
                 IF message.val.kind = "DataRow" THEN At("returned", pending)
                 ELSE IF message.val.kind = "Error"
                      THEN At("returned", ServerError(message.val.text))
                 ELSE IF message.val.kind = "Ready" THEN At("returned", pending)
                 ELSE At("returned", ClientError("Expecting 'DataRow'"))
           [] pc = "ready" ->
                 IF message.val.kind = "Ready" THEN At("returned", pending)
                 ELSE IF message.val.kind = "Error"
                      THEN At("returned", ServerError(message.val.text))
                 ELSE At("returned", ClientError("Expecting 'Ready'"))

\* query, read_data_rows_until_ready and read_ready: where the client is after
\* a read has returned a message or an error, and what query is to return
query_read(pc, pending, message) ==
    IF message.res # "Ok" THEN At("returned", ClientError(message.kind))
    ELSE CASE pc = "query" ->
                 IF message.val.kind = "DataDescription" THEN At("rows", QueryOk("DataTable"))
                 ELSE IF message.val.kind = "InsertResult" THEN At("ready", QueryOk("Mutation"))
                 ELSE IF message.val.kind = "Error"
                      THEN At("ready", ServerError(message.val.text))
                 ELSE At("returned", ClientError("Expecting 'DataDescription'"))
           [] pc = "rows" ->
                 IF message.val.kind = "DataRow" THEN At("rows", pending)
                 ELSE IF message.val.kind = "Error"
                      THEN At("returned", ServerError(message.val.text))
                 ELSE IF message.val.kind = "Ready" THEN At("returned", pending)
                 ELSE At("returned", ClientError("Expecting 'DataRow'"))
           [] pc = "ready" ->
                 IF message.val.kind = "Ready" THEN At("returned", pending)
                 ELSE IF message.val.kind = "Error"
                      THEN At("returned", ServerError(message.val.text))
                 ELSE At("returned", ClientError("Expecting 'Ready'"))

RECURSIVE query_on(_, _, _)
\* query on a stream that holds all the server is going to send: what it
\* returns and the bytes it leaves in the stream
query_on(pc, pending, stream) ==
    LET after(message) ==
            IF message.res = "Panic" THEN [returned |-> Panic, rest |-> stream]
            ELSE LET next(at) ==
                         IF at.pc = "returned"
                         THEN [returned |-> at.pending, rest |-> message.rest]
                         ELSE query_on(at.pc, at.pending, message.rest)
                 IN next(query_read(pc, pending, message))
    IN after(read_message(stream, TRUE, "server"))

\* TcpStream::connect has returned: nothing was sent or read; calls are the
\* calls of query and handshake the client has made on its connection
Connected == [pc |-> "idle", got |-> <<>>, sql |-> <<>>, read |-> <<>>,
              pending |-> NoResult, queries |-> 0, calls |-> <<>>]

InitClient ==
    /\ db = bootstrap_database
    /\ op = NoOp
    /\ inserted = [name \in TableNames |-> <<>>]
    /\ c2s = [c \in Conns |-> <<>>]
    /\ closed = [c \in Conns |-> FALSE]
    /\ s2c = [c \in Conns |-> <<>>]
    /\ worker = [c \in Conns |-> "running"]
    /\ turn = [c \in Conns |-> NoTurn]
    /\ client = [c \in Conns |-> Connected]
    /\ nsent = 0
    /\ rwlock = RwLock_new(new_manager)
    /\ main = [pc |-> "new", step |-> 0, half |-> FALSE, thread_id |-> 1]
    /\ phase = [c \in Conns |-> NoPhase]
    /\ cmsg = [src |-> "none"]
    /\ wire = <<>>
    /\ decoded = NoResult

\* query: MicrobatClientMessage::Query(sql).send
ClientQuery(c) ==
    /\ ~closed[c] /\ client[c].pc \in {"idle", "connected", "returned"} /\ nsent < MaxSends
    /\ \E sql \in ClientQueries :
          /\ c2s' = [c2s EXCEPT ![c] = @ \o client_as_bytes(CQuery(sql))]
          /\ client' = [client EXCEPT ![c] =
                            [pc |-> "query", got |-> <<>>, sql |-> sql, read |-> <<>>,
                             pending |-> NoResult, queries |-> @.queries + 1,
                             calls |-> Append(@.calls, "query")]]
    /\ nsent' = nsent + 1
    /\ UNCHANGED <<db, closed, s2c, worker, turn, codecVars, engineVars, lockVars>>

\* query: one read_message of the response; the read aborts as the worker's does
ClientQueryRead(c) ==
    /\ InQuery(c)
    /\ LET message == client_read(c) IN
       /\ message.res # "Block"
       /\ IF message.res = "Panic"
          THEN /\ client' = [client EXCEPT ![c].pc = "panicked"]
               /\ s2c' = s2c
          ELSE LET at == query_read(client[c].pc, client[c].pending, message) IN
               /\ client' = [client EXCEPT
                                ![c].pc = at.pc, ![c].pending = at.pending,
                                ![c].read = @ \o SubSeq(s2c[c], 1, Len(s2c[c]) - Len(message.rest)),
                                ![c].got = IF message.res = "Ok"
                                           THEN Append(@, message.val) ELSE @]
               /\ s2c' = [s2c EXCEPT ![c] = message.rest]
    /\ UNCHANGED <<db, c2s, closed, worker, turn, nsent, codecVars, engineVars, lockVars>>

\* handshake, called by connect and by the REPL at the end of its input:
\* MicrobatClientMessage::Handshake.send
ClientHandshakeCall(c) ==
    /\ ~closed[c] /\ client[c].pc \in {"idle", "connected", "returned"} /\ nsent < MaxSends
    /\ c2s' = [c2s EXCEPT ![c] = @ \o client_as_bytes(CHandshake)]
    /\ client' = [client EXCEPT ![c].pc = "read_handshake", ![c].got = <<>>,
                                 ![c].calls = Append(@, "handshake")]
    /\ nsent' = nsent + 1
    /\ UNCHANGED <<db, closed, s2c, worker, turn, codecVars, engineVars, lockVars>>

ClientNext ==
    \/ \E c \in Conns : ClientQuery(c)
    \/ \E c \in Conns : ClientHandshakeCall(c)
    \/ \E c \in Conns : ClientReadHandshake(c)
    \/ \E c \in Conns : ClientReadReady(c)
    \/ \E c \in Conns : ClientQueryRead(c)
    \/ \E c \in Conns : handle_connection(c)

SpecClient == InitClient /\ [][ClientNext]_vars

\* the frames of a response with an InsertResult, which the worker never sends
InsertResponses ==
    {server_as_bytes(SInsertResult(n)) \o server_as_bytes(SReady) : n \in {0, 1}}

\* query has returned a result, or the error the server sent
Returned(c) ==
    /\ client[c].pc = "returned"
    /\ client[c].pending.res = "Ok" \/ client[c].pending.by = "server"

\* C36: client and server stay synchronised at the Ready barrier: for every
\* response to a QUERY (rowset, insert result, error) query consumes all the
\* frames of the response up to and including the READY before it returns a
\* result or the error of the server, so that the first frame the next query
\* reads is the first frame of the response to that query
C36_ReadyBarrier ==
    /\ \A c \in Conns :
          /\ Returned(c) =>
                /\ s2c[c] = <<>>
                /\ turn[c].request = CQuery(client[c].sql)
                /\ client[c].read = turn[c].written
                /\ client[c].got[Len(client[c].got)] = SReady
          /\ InQuery(c) =>
                \/ client[c].read = <<>> /\ s2c[c] = <<>>
                \/ /\ turn[c].request = CQuery(client[c].sql)
                   /\ client[c].read \o s2c[c] = turn[c].written
    /\ \A frames \in InsertResponses, next \in {<<>>, server_as_bytes(SError((* "No such table: NOPE" *) <<78, 111, 32, 115, 117, 99, 104, 32, 116, 97, 98, 108, 101, 58, 32, 78, 79, 80, 69>>))} :
          query_on("query", NoResult, frames \o next) =
              [returned |-> QueryOk("Mutation"), rest |-> next]

\* the second query of a connection has returned the rows of its response
C36_Witness ==
    \E c \in Conns :
        /\ Returned(c)
        /\ client[c].queries = 2
        /\ client[c].pending = QueryOk("DataTable")
        /\ Len(client[c].got) > 2
        /\ turn[c].response[1].kind = "DataDescription"



\* the responses the worker gives a QUERY on the catalog of run_microbat
AnswersTo(sql) ==
    LET answer(result) ==
            IF result.res = "Panic" THEN <<>>
            ELSE Append(query_response(result), SReady)
        databases == {bootstrap_database}
                        \cup {reorder(bootstrap_database, p) :
                                 p \in IterationOrders(Len(bootstrap_database.keys))}
    IN {answer(execute_clause(parsed(sql), database)) : database \in databases}

\* C37: the server keeps no handshake state: a QUERY received before any
\* HANDSHAKE is executed and answered as any other QUERY is, and a HANDSHAKE
\* received later in the session (the REPL sends one at the end of its input) is
\* answered again with HANDSHAKE and READY, the session going on as before
C37_NoHandshakeState ==
    \A c \in Conns :
        /\ turn[c].request.kind = "Handshake" =>
              /\ turn[c].response = <<SHandshake, SReady>>
              /\ worker[c] = "running"
        /\ turn[c].request.kind = "Query" =>
              turn[c].response \in AnswersTo(turn[c].request.text)
        /\ client[c].pc = "connected" =>
              client[c].got = <<SHandshake, SReady>> /\ s2c[c] = <<>>
        /\ client[c].pc = "failed" => worker[c] # "running"

\* a client has called query and then, as the REPL does, handshake; the worker
\* has answered the query without a handshake before it, and then the handshake
C37_Witness ==
    \E c \in Conns :
        /\ client[c].calls = <<"query", "handshake">>
        /\ client[c].pending.res = "Ok"
        /\ client[c].pc = "connected"
        /\ turn[c].request.kind = "Handshake"



(***************************************************************************)
(* Properties of parse_sql: the tokens behind a statement                  *)
(***************************************************************************)
\* a statement with words behind it was parsed; the words lex to a token each
\* and the first of them does not continue the statement
TrailingParsed ==
    /\ op.kind = "parse_trailing"
    /\ Lexes(op.trailing)
    /\ op.trailing[1] \notin op.base.continued

\* the first of the words stands behind the expression of `select 1`
BehindExpression == op.base.words = <<(* "select" *) <<115, 101, 108, 101, 99, 116>>, (* "1" *) <<49>>>>

\* C38 as claimed: parse_sql stops at the first token that does not continue the
\* statement and ignores every token after it, reporting no error: SHOW TABLES
\* followed by any tokens is ShowTables, SELECT a FROM t WHERE a = b is the
\* clause of SELECT a FROM t
C38_TrailingIgnored ==
    TrailingParsed => op.result = Ok(op.base.clause)

\* C38, amended: parse_sql ignores the tokens behind SHOW TABLES and behind the
\* tables of a FROM, whatever they are, and reports no error; behind the last
\* expression of a SELECT without FROM it does so when the token has the right
\* binding power 0, while an INTEGER or LPARENS there is handed to led and fails
\* with NoLed
C38_TrailingOfPowerZero ==
    TrailingParsed =>
        IF ~BehindExpression THEN op.result = Ok(op.base.clause) /\ op.alone = op.result
        ELSE IF op.trailing[1] \in NoLedWords THEN op.result = NoLed(TokenOf(op.trailing[1]))
        ELSE rbp_of(TokenOf(op.trailing[1])) = 0 => op.result = Ok(op.base.clause)

\* SELECT a FROM t WHERE a = b has been parsed to the clause of SELECT a FROM t
C38_Witness ==
    /\ TrailingParsed
    /\ op.trailing = <<(* "WHERE" *) <<87, 72, 69, 82, 69>>, (* "a" *) <<97>>, (* "=" *) <<61>>, (* "b" *) <<98>>>>
    /\ op.result = op.alone
    /\ op.result = Ok(Select(<<ReferenceExpression((* "A" *) <<65>>)>>, <<(* "T" *) <<84>>>>))



\* the words parse_sql was called with
ParsedWords == IF op.kind = "parse_trailing" THEN op.base.words \o op.trailing ELSE op.words

\* the words are SELECT, one expression with parentheses, and `;` or nothing
OneExpression(words) ==
    /\ Len(words) >= 2
    /\ words[1] = (* "select" *) <<115, 101, 108, 101, 99, 116>>
    /\ \A i \in 2..Len(words) :
          \/ words[i] \in {(* "1" *) <<49>>, (* "name" *) <<110, 97, 109, 101>>, (* "+" *) <<43>>, (* "(" *) <<40>>, (* ")" *) <<41>>}
          \/ i = Len(words) /\ i > 2 /\ words[i] = (* ";" *) <<59>>

RECURSIVE open_parentheses(_, _)
\* the parentheses left open at the end of the words, -1 when one of the words
\* closes a parenthesis that none has opened
open_parentheses(words, depth) ==
    IF words = <<>> THEN depth
    ELSE IF Head(words) = (* "(" *) <<40>> THEN open_parentheses(Tail(words), depth + 1)
    ELSE IF Head(words) = (* ")" *) <<41>>
         THEN (IF depth = 0 THEN -1 ELSE open_parentheses(Tail(words), depth - 1))
    ELSE open_parentheses(Tail(words), depth)

\* C39: the parser accepts balanced parentheses only: an expression with an
\* LPARENS that no RPARENS closes, or with an RPARENS that closes no LPARENS,
\* makes parse_sql fail with a ParseError
C39_BalancedParentheses ==
    ((TextParsed \/ op.kind = "parse_trailing")
        /\ OneExpression(ParsedWords)
        /\ open_parentheses(ParsedWords, 0) # 0)
    => op.result.res = "Err"



(***************************************************************************)
(* InMemoryManager::query: the result schema from schema_column, then the  *)
(* projection evaluated on each stored row and pushed into the relation.   *)
(***************************************************************************)
AsExpression(name, expression) == [e |-> "As", name |-> name, expression |-> expression]

\* ("column_<index>", Integer), what a leaf and an operation declare
column_of_index(index) == Column((* "column_" *) <<99, 111, 108, 117, 109, 110, 95>> \o to_string(index), "Integer")

RECURSIVE schema_column_integer(_, _, _)
\* a schema_column whose ReferenceExpression declares what a leaf declares
schema_column_integer(expr, schema, index) ==
    CASE expr.e = "As" ->
            LET sub == schema_column_integer(expr.expression, schema, index) IN
            IF sub.res # "Ok" THEN sub ELSE Ok(Column(expr.name, sub.val.data_type))
      [] expr.e = "Reference" ->
            IF position(schema, expr.name) = 0
            THEN DataErr((* "No such column " *) <<78, 111, 32, 115, 117, 99, 104, 32, 99, 111, 108, 117, 109, 110, 32>> \o expr.name)
            ELSE Ok(column_of_index(index))
      [] expr.e = "Leaf" -> Ok(column_of_index(index))
      [] expr.e = "Negate" -> schema_column_integer(expr.expression, schema, index)
      [] expr.e = "Operation" -> Ok(column_of_index(index))

RECURSIVE schema_column(_, _, _)
\* Expression::schema_column of AsExpression, ReferenceExpression, LeafExpression,
\* NegateExpression and OperationExpression; index counted from 0
schema_column(expr, schema, index) ==
    CASE expr.e = "As" ->
            LET sub == schema_column(expr.expression, schema, index) IN
            IF sub.res # "Ok" THEN sub ELSE Ok(Column(expr.name, sub.val.data_type))
      [] expr.e = "Reference" ->
            IF position(schema, expr.name) = 0
            THEN DataErr((* "No such column " *) <<78, 111, 32, 115, 117, 99, 104, 32, 99, 111, 108, 117, 109, 110, 32>> \o expr.name)
            ELSE Ok(Column(expr.name, schema[position(schema, expr.name)].data_type))
      [] expr.e = "Leaf" -> Ok(column_of_index(index))
      [] expr.e = "Negate" -> schema_column(expr.expression, schema, index)
      [] expr.e = "Operation" -> Ok(column_of_index(index))

\* InMemoryManager::query: the relation, or the first error on the way
query(database, table_name, projection) ==
    LET table_meta == get_table_meta(database, table_name)
        RECURSIVE columns_from(_, _)
        \* the first loop: schema_columns, or the first error of schema_column
        columns_from(base, index) ==
            IF index >= Len(projection) THEN Ok(<<>>)
            ELSE LET column == schema_column(projection[index + 1], base, index) IN
                 IF column.res # "Ok" THEN column
                 ELSE LET more == columns_from(base, index + 1) IN
                      IF more.res # "Ok" THEN more ELSE Ok(<<column.val>> \o more.val)
        RECURSIVE relation_row(_, _, _)
        \* the inner loop: the values of the projection on a row, or the first
        \* eval that does not return a value
        relation_row(base, row, j) ==
            IF j > Len(projection) THEN Ok(<<>>)
            ELSE LET value == eval(projection[j], base, row) IN
                 IF value.res # "Ok" THEN value
                 ELSE LET more == relation_row(base, row, j + 1) IN
                      IF more.res # "Ok" THEN more ELSE Ok(<<value.val>> \o more.val)
        RECURSIVE pushed_from(_, _, _)
        \* the outer loop over the fetched rows
        pushed_from(relation, base, rows) ==
            IF rows = <<>> THEN Ok(relation)
            ELSE LET relation_row_of == relation_row(base, Head(rows), 1) IN
                 IF relation_row_of.res # "Ok" THEN relation_row_of
                 ELSE LET next == push_row(relation, relation_row_of.val) IN
                      IF next.res # "Ok" THEN next
                      ELSE pushed_from(next.val, base, Tail(rows))
    IN IF table_meta.res # "Ok" THEN table_meta
       ELSE LET schema_columns == columns_from(table_meta.val.schema, 0) IN
            IF schema_columns.res # "Ok" THEN schema_columns
            ELSE LET schema == TableSchema_new(schema_columns.val) IN
                 IF schema.res # "Ok" THEN schema
                 ELSE pushed_from(RelationTable_new(schema.val), table_meta.val.schema,
                                  fetch(database, table_name).val)

(***************************************************************************)
(* The catalog with queries: the calls of SpecEngine build tables and      *)
(* rows, and query is called on what they have built.                      *)
(***************************************************************************)
\* expressions over the columns of EngineSchemas: each kind, over an Integer
\* column, a Varchar column and a column no table has
QueryTerms ==
    { LeafExpression(1), ReferenceExpression((* "ID" *) <<73, 68>>), ReferenceExpression((* "NAME" *) <<78, 65, 77, 69>>),
      ReferenceExpression((* "AGE" *) <<65, 71, 69>>),
      OperationExpression("Plus", ReferenceExpression((* "ID" *) <<73, 68>>), LeafExpression(1)) }

QueryExpressions ==
    QueryTerms
    \cup {NegateExpression(e) : e \in QueryTerms}
    \cup {AsExpression((* "n" *) <<110>>, e) : e \in QueryTerms}
    \cup { OperationExpression("Minus", ReferenceExpression((* "ID" *) <<73, 68>>), ReferenceExpression((* "ID" *) <<73, 68>>)),
           OperationExpression("Plus", ReferenceExpression((* "NAME" *) <<78, 65, 77, 69>>), ReferenceExpression((* "NAME" *) <<78, 65, 77, 69>>)),
           OperationExpression("Plus", ReferenceExpression((* "ID" *) <<73, 68>>), ReferenceExpression((* "NAME" *) <<78, 65, 77, 69>>)),
           AsExpression((* "n" *) <<110>>, NegateExpression(ReferenceExpression((* "NAME" *) <<78, 65, 77, 69>>))) }

QueryProjections ==
    {<<>>} \cup {<<e>> : e \in QueryExpressions}
           \cup {<<e, f>> : e \in QueryTerms \cup {AsExpression((* "n" *) <<110>>, ReferenceExpression((* "NAME" *) <<78, 65, 77, 69>>))},
                            f \in QueryTerms}

Query ==
    /\ op.n < MaxOps
    /\ \E table_name \in TableNames, projection \in QueryProjections :
         LET done(result) ==
                 op' = [n |-> op.n + 1, kind |-> "query", name |-> table_name,
                        arg |-> projection, res |-> result.res, result |-> result,
                        before |-> db]
         IN done(query(db, table_name, projection))
    /\ UNCHANGED <<db, inserted, connVars, codecVars, lockVars>>

QueryNext == CreateTable \/ Insert \/ Query

SpecQuery == InitEngine /\ [][QueryNext]_vars

\* query has been called with a projection of at least one expression on a table
\* of the catalog
Queried == op.kind = "query" /\ op.arg # <<>> /\ has_table(db, op.name)

\* what schema_column declares for the expression at position j of the projection
DeclaredAt(j) == schema_column(op.arg[j], SchemaOf(db, op.name), j - 1)

\* what eval returns for the expression at position j on the i-th stored row
ValueAt(i, j) == eval(op.arg[j], SchemaOf(db, op.name), Fetched(db, op.name)[i])

\* the rows in front of row i all have values, and so have the expressions in
\* front of j on row i
FirstFailure(i, j) ==
    /\ \A k \in 1..(i - 1) : \A l \in 1..Len(op.arg) : ValueAt(k, l).res = "Ok"
    /\ \A l \in 1..(j - 1) : ValueAt(i, l).res = "Ok"

\* C40: within query the declared schema and the evaluated values agree: for each
\* expression of the projection (integer leaf, reference, negate, operation, as)
\* and each stored row of the table, a value eval returns has the type
\* schema_column declared for its position.  So push_row takes every row: query
\* returns the relation of the declared columns and the evaluated rows when every
\* schema_column and every eval succeeded, and otherwise ends with the first
\* failure of schema_column or of eval, never with an error of push_row.
C40_SchemaAgrees ==
    Queried =>
        LET columns == 1..Len(op.arg)
            rows == 1..Len(Fetched(db, op.name))
            declared == \A j \in columns : DeclaredAt(j).res = "Ok"
        IN /\ \A i \in rows : \A j \in columns :
                 (DeclaredAt(j).res = "Ok" /\ ValueAt(i, j).res = "Ok")
                     => matcher(ValueAt(i, j).val) = DeclaredAt(j).val.data_type
           /\ (declared /\ \A i \in rows : \A j \in columns : ValueAt(i, j).res = "Ok")
                 => op.result = Ok([schema |-> [j \in columns |-> DeclaredAt(j).val],
                                    rows |-> [i \in rows |->
                                                 [j \in columns |-> ValueAt(i, j).val]]])
           /\ ~declared
                 => \E j \in columns :
                       /\ DeclaredAt(j).res # "Ok"
                       /\ \A l \in 1..(j - 1) : DeclaredAt(l).res = "Ok"
                       /\ op.result = DeclaredAt(j)
           /\ (declared /\ op.result.res # "Ok")
                 => \E i \in rows : \E j \in columns :
                       /\ ValueAt(i, j).res # "Ok"
                       /\ FirstFailure(i, j)
                       /\ op.result = ValueAt(i, j)

\* C40 happens: over a table of an Integer and a Varchar column holding a row,
\* query has returned the relation of a reference to the Varchar column under
\* another name and of an operation on the Integer column
C40_Witness ==
    /\ Queried
    /\ op.arg = <<AsExpression((* "n" *) <<110>>, ReferenceExpression((* "NAME" *) <<78, 65, 77, 69>>)),
                  OperationExpression("Plus", ReferenceExpression((* "ID" *) <<73, 68>>), LeafExpression(1))>>
    /\ op.result.res = "Ok"
    /\ op.result.val.schema = <<Column((* "n" *) <<110>>, "Varchar"), Column((* "column_1" *) <<99, 111, 108, 117, 109, 110, 95, 49>>, "Integer")>>
    /\ op.result.val.rows = <<<<MVarchar((* "hello" *) <<104, 101, 108, 108, 111>>), MInteger(2)>>>>

====
